---- MODULE Spec2Model ----
(***************************************************************************)
(* Verification model of the dashcam toolbox:                              *)
(*   - Dashcam/PeopleNet/worker.py: ContinuousGPUWorker, several worker    *)
(*     processes sharing a staging directory through lock files;           *)
(*   - Dashcam/Audio-Transcriber/scripts/gpu_pipeline.py:                  *)
(*     ParallelGPUPipeline and GPUTranscriptionWorker.                     *)
(* Each subsystem has its own variables and its own specification; the     *)
(* actions of one subsystem leave the variables of the others unchanged.   *)
(***************************************************************************)
EXTENDS Integers, Sequences, FiniteSets, TLC

(***************************************************************************)
(* Bounds of the model.                                                    *)
(***************************************************************************)
NumWorkers == 2
NumVideos == 2
MaxGpus == 2
MaxInputs == 3
MaxDispatch == 8
MaxStream == 2
MaxCalls == 3
MaxCallInputs == 1
ManyGpus == 5
MaxFiles == 3
MaxHashed == 3
MaxContents == 2
MaxFront == 2
MaxScan == 3
MaxSegs == 3
MaxChunks == 2
MaxDuration == 7
MaxChunkLen == 3
MaxSplit == 8
MaxDiarSegs == 2
MaxTurns == 2
MaxSnapJobs == 2
MaxInitCalls == 4
MaxPureSegs == 2
MaxExports == 2
MaxPathInputs == 2
MaxOverlap == 4

(***************************************************************************)
(* worker.py state.                                                        *)
(*   staging         the *.MP4 names present in STAGING_DIR                *)
(*   processed_list  PROCESSED_LIST, an append-only file that is only ever *)
(*                   read as the set of its lines: per name, the number of *)
(*                   lines that hold it                                    *)
(*   lockfile        LOCK_DIR/<name>.lock: Absent, Empty (created, not yet *)
(*                   written) or the worker id written into it             *)
(*   wpc             position of each worker process in run()              *)
(*   processed       get_next_video's local set `processed`                *)
(*   videos          get_next_video's local sorted list `videos`           *)
(*   vidx            index of the for loop over `videos`                   *)
(*   video_path      run()'s local `video_path` (NoPath: None)             *)
(*   claimRet        history: what the latest try_claim_video call of the  *)
(*                   worker returned, and whether the lock file existed    *)
(*                   when it was made                                      *)
(*   claims          history: per video, the number of try_claim_video     *)
(*                   calls that returned True                              *)
(*   processedBy     history: per video, number of process_video calls     *)
(*                   that opened the video                                 *)
(***************************************************************************)
VARIABLES staging, processed_list, lockfile, wpc, processed, videos, vidx,
          video_path, claimRet, claims, processedBy

workerVars == <<staging, processed_list, lockfile, wpc, processed, videos,
                vidx, video_path, claimRet, claims, processedBy>>

(***************************************************************************)
(* gpu_pipeline.py state.                                                  *)
(*  ParallelGPUPipeline:                                                   *)
(*   gpu_count       self.gpu_count                                        *)
(*   workers         self.workers: the gpu_id of each worker, in list      *)
(*                   order (Python index k is position k + 1)              *)
(*   executor        self.executor: "none", "running", or "shutdown" once  *)
(*                   ThreadPoolExecutor.shutdown has been called           *)
(*   max_workers     max_workers of the executor                           *)
(*   shutdown_flag   self._shutdown                                        *)
(*   job_queue       self.job_queue: job references and None sentinels     *)
(*   result_queue    self.result_queue                                     *)
(*  TranscriptionJob objects and GPUWorkerStats:                           *)
(*   jobs            every TranscriptionJob created so far; a job is       *)
(*                   referred to by its position                           *)
(*   stats           worker.stats of each worker of self.workers           *)
(*  ThreadPoolExecutor:                                                    *)
(*   work_queue      submitted work items not yet taken by a thread        *)
(*   future          per job, the state of the Future submit returned      *)
(*   out_of_order    history: some future resolved while the future of an  *)
(*                   input submitted before it was still unresolved        *)
(*  Threads that run process_job (executor threads, consumer threads):     *)
(*   rpc, rjob, rworker   position, job and worker of each                 *)
(*  The caller of process_batch / process_stream:                          *)
(*   cpc             position of the caller                                *)
(*   input_files     the inputs of the call                                *)
(*   idx             loop index of the caller                              *)
(*   futures         process_batch's local list `futures` (the jobs)       *)
(*   completed_jobs  process_batch's local list `completed_jobs`           *)
(*   ret             the list the call returned                            *)
(*   raised          the exception the call raised to its caller           *)
(*   calls           number of calls of the public operations started      *)
(*   statistics      the dict the latest get_statistics call returned      *)
(*  A caller of shutdown():                                                *)
(*   spc             its position in shutdown()                            *)
(***************************************************************************)
VARIABLES gpu_count, workers, executor, max_workers, shutdown_flag,
          job_queue, result_queue, jobs, stats, work_queue, future,
          out_of_order,
          rpc, rjob, rworker,
          cpc, input_files, idx, futures, completed_jobs, ret, raised,
          calls, statistics, spc

pipeObj == <<gpu_count, workers, executor, max_workers, shutdown_flag>>
queueVars == <<job_queue, result_queue>>
execVars == <<work_queue, future, out_of_order>>
runVars == <<rpc, rjob, rworker>>
callVars == <<cpc, input_files, idx, futures, completed_jobs, ret, raised,
              calls, statistics>>

pipeVars == <<pipeObj, queueVars, jobs, stats, execVars, runVars, callVars,
              spc>>

(***************************************************************************)
(* optimized_transcribe_gpu.py state: one OptimizedGPUTranscriber and the  *)
(* files it reads and writes.                                              *)
(*   ot_pc             position in process_files                           *)
(*   file_ids          the ids listed in needs_transcription_file          *)
(*   transcripts       output_base/<stem>/transcript.json per file:        *)
(*                     NoTranscript or the transcript data written         *)
(*   files_to_process  process_files' local list                           *)
(*   check_idx         index of the audio check loop                       *)
(*   probe_run         history: per file, what the ffmpeg run of           *)
(*                     check_audio_level did                               *)
(*   silent_files, audio_files, unknown_files                              *)
(*                     process_files' lists of (file, levels)              *)
(*   audio_extracted   the (file, audio path) pairs of the current batch   *)
(*                     not yet transcribed                                 *)
(*   batch_i           the loop variable i of the batch loop               *)
(*   completed, failed process_files' counters                             *)
(*   report            the report written at the end (NoReport: none)      *)
(*   extract_calls     history: files whose audio extraction was started   *)
(*   transcribe_calls  history: files given to model.transcribe            *)
(***************************************************************************)
VARIABLES ot_pc, file_ids, transcripts, files_to_process, check_idx,
          probe_run, silent_files, audio_files, unknown_files,
          audio_extracted, batch_i, completed, failed, report,
          extract_calls, transcribe_calls

transVars == <<ot_pc, file_ids, transcripts, files_to_process, check_idx,
               probe_run, silent_files, audio_files, unknown_files,
               audio_extracted, batch_i, completed, failed, report,
               extract_calls, transcribe_calls>>

(***************************************************************************)
(* batch_orchestrator.py state: the files of the generate_hashes           *)
(* operation.                                                              *)
(*   hpc               position in _op_generate_hashes                     *)
(*   out_content       content of outputs/<basename>/transcript.json per   *)
(*                     input (NoFile: no such file)                        *)
(*   hash_files        reports/hashes/<name>.sha256 per name: NoValue or   *)
(*                     the line written                                    *)
(*   transcript_files  the local list of the matching files                *)
(*   hash_idx          index of the loop over transcript_files             *)
(*   hashes_generated  the local list of the hashes generated              *)
(***************************************************************************)
VARIABLES hpc, out_content, hash_files, transcript_files, hash_idx,
          hashes_generated

hashVars == <<hpc, out_content, hash_files, transcript_files, hash_idx,
              hashes_generated>>

(***************************************************************************)
(* batch_orchestrator.py state: the process_batch operation, and the files *)
(* GPUTranscriptionWorker._save_results writes for its jobs.               *)
(*   opc            position in _op_process_batch                          *)
(*   skip_existing  the skip_existing option of the request                *)
(*   front_files    the number of the manifest's front files that exist    *)
(*   existing       the inputs that have a transcript.json when the        *)
(*                  operation begins                                       *)
(*   manifest       jobs_total, jobs_completed, jobs_failed                *)
(*   artifacts      per input, the state of transcript.json, .srt, .vtt    *)
(*                  and .csv: "absent", "old" (of an earlier run),         *)
(*                  "partial" or "new" (written in full by this run)       *)
(*   save_pc        per job, the position in the body of process_job       *)
(*   export_idx     per job, the index of the loop of _export_formats      *)
(*   asr_runs       the inputs model.transcribe was run on                 *)
(***************************************************************************)
VARIABLES opc, skip_existing, front_files, existing, manifest, artifacts,
          save_pc, export_idx, asr_runs

orchVars == <<opc, skip_existing, front_files, existing, manifest, artifacts,
              save_pc, export_idx, asr_runs>>

(***************************************************************************)
(* batch_orchestrator.py state: one call of BatchOrchestrator.execute.     *)
(*   epc                   position in execute                             *)
(*   cwd_parts             the parts of self.cwd                           *)
(*   pattern               input_pattern                                   *)
(*   tree                  the video files under cwd, relative to it       *)
(*   scan_pc, all_files, scan_idx, scan_front, scan_rear                   *)
(*                         position and locals of _op_scan_files           *)
(*                         (front_files, rear_files)                       *)
(*   plan_idx              index of the loop of _execute_plan              *)
(*   results               the results dict of _execute_plan               *)
(*   reports               the files of reports/ written                   *)
(*   pipeline_state        self.gpu_pipeline: "none", "constructed" or     *)
(*                         "initialized"                                   *)
(*   has_transcripts       some outputs/<basename>/transcript.json exists  *)
(*   verification_results  the 'pass' of each check, in order              *)
(*   completion            the completion report                           *)
(***************************************************************************)
VARIABLES epc, cwd_parts, pattern, tree, scan_pc, all_files, scan_idx,
          scan_front, scan_rear, plan_idx, results, reports, pipeline_state,
          has_transcripts, verification_results, completion

exeVars == <<epc, cwd_parts, pattern, tree, scan_pc, all_files, scan_idx,
             scan_front, scan_rear, plan_idx, results, reports,
             pipeline_state, has_transcripts, verification_results,
             completion>>

(***************************************************************************)
(* exporters.py state: one transcript that is exported.                    *)
(*   xpc           position in the export                                  *)
(*   x_segments    data['segments'] / result['segments']                   *)
(*   merged        what _merge_segments(segments) returned                 *)
(*   remerged      what _merge_segments(merged) returned                   *)
(*   srt_cues      the cues SRTExporter.export wrote                       *)
(*   gpu_srt_cues  the cues GPUTranscriptionWorker._export_srt wrote       *)
(***************************************************************************)
VARIABLES xpc, x_segments, merged, remerged, srt_cues, gpu_srt_cues

exportVars == <<xpc, x_segments, merged, remerged, srt_cues, gpu_srt_cues>>

(***************************************************************************)
(* gpu_pipeline.py / pipeline.py state: the segments of one transcript.    *)
(*   mpc            position: the GPU worker transcribes one file, or the  *)
(*                  pipeline transcribes the chunks of a long file         *)
(*   asr_segments   what model.transcribe yields (the starts)              *)
(*   segment_list   the 'segments' _transcribe_audio returns               *)
(*   chunks         the chunks of chunk_audio and what the ASR yields for  *)
(*                  each                                                   *)
(*   chunk_i        index of the loop over chunks                          *)
(*   chunk_results  the local list chunk_results                           *)
(*   all_segments   the 'segments' _merge_chunk_results returns            *)
(***************************************************************************)
VARIABLES mpc, asr_segments, segment_list, chunks, chunk_i, chunk_results,
          all_segments

collectVars == <<mpc, asr_segments, segment_list, chunks, chunk_i,
                 chunk_results, all_segments>>

(***************************************************************************)
(* audio_extractor.py state: one call of split_long_audio.                 *)
(*   kpc           position in split_long_audio                            *)
(*   duration      the duration probed                                     *)
(*   max_duration, overlap   the parameters                                *)
(*   start_time, chunk_idx   the locals of the loop                        *)
(*   split_chunks  the local list chunks: (start_time, end_time) of each   *)
(*                 chunk kept, and the index in the name of its file       *)
(***************************************************************************)
VARIABLES kpc, duration, max_duration, overlap, start_time, chunk_idx,
          split_chunks

splitVars == <<kpc, duration, max_duration, overlap, start_time, chunk_idx,
               split_chunks>>

(***************************************************************************)
(* hardware_optimizer.py state: one construction of HardwareOptimizer.     *)
(*   dpc        position in __init__                                       *)
(*   machine    the hardware the queries report                            *)
(*   gpu_info   the dict of _detect_gpu                                    *)
(*   recommendations   the dict of _calculate_recommendations; with        *)
(*              gpu_info and the cores and memory of the machine it makes  *)
(*              self.specs                                                 *)
(*   optimization_profile   self.optimization_profile, once computed       *)
(***************************************************************************)
VARIABLES dpc, machine, gpu_info, recommendations, optimization_profile

detectVars == <<dpc, machine, gpu_info, recommendations,
                optimization_profile>>

(***************************************************************************)
(* Diarization state: one job of gpu_pipeline.py at _add_diarization, and  *)
(* one call of transcriber.py's align_with_diarization.                    *)
(*   zpc          position in process_job, or in align_with_diarization    *)
(*   d_segments   result['segments']: start, end and the label 'speaker'   *)
(*   turns        what the diarization model returns                       *)
(*   d_info       result['diarization']: none, enabled or error            *)
(*   aligned_segments   the segments align_with_diarization returns        *)
(*   d_job        the job's status and the worker's counters               *)
(***************************************************************************)
VARIABLES zpc, d_segments, turns, d_info, aligned_segments, d_job

diarVars == <<zpc, d_segments, turns, d_info, aligned_segments, d_job>>

(***************************************************************************)
(* Statistics state: one worker of gpu_pipeline.py read by get_statistics. *)
(*   wk_pc     position of the worker's thread in process_job              *)
(*   wk_job    the number of jobs the worker has begun                     *)
(*   wstats    the worker's self.stats                                     *)
(*   gs_pc     position of the caller in get_statistics: the field it      *)
(*             reads next                                                  *)
(*   gs_entry  the values read so far for the worker's entry               *)
(*   held      history: the (jobs_completed, jobs_failed, current_job)     *)
(*             that self.stats has held                                    *)
(***************************************************************************)
VARIABLES wk_pc, wk_job, wstats, gs_pc, gs_entry, held

snapVars == <<wk_pc, wk_job, wstats, gs_pc, gs_entry, held>>

(***************************************************************************)
(* Export state: one transcript exported several times by exporters.py.    *)
(*   p_segments  data['segments'] of the transcript the caller holds       *)
(*   p_config    the configuration of the exporters                        *)
(*   p_files     per format, what the last export to it wrote              *)
(*   p_exports   the number of export calls made                           *)
(***************************************************************************)
VARIABLES p_segments, p_config, p_files, p_exports

pureVars == <<p_segments, p_config, p_files, p_exports>>

(***************************************************************************)
(* Output path state: the jobs of one process_batch or process_stream      *)
(* call of gpu_pipeline.py.                                                *)
(*   o_call    the method called                                           *)
(*   o_inputs  its input files                                             *)
(*   o_jobs    the jobs created so far                                     *)
(*   o_saved   the jobs whose results are saved                            *)
(*   o_files   the JSON files on disk, each with the job that wrote it     *)
(***************************************************************************)
VARIABLES o_call, o_inputs, o_jobs, o_saved, o_files

pathVars == <<o_call, o_inputs, o_jobs, o_saved, o_files>>

\* the state of the pure computations
calcVars ==
    <<exportVars, collectVars, splitVars, detectVars,
      diarVars, snapVars, pureVars, pathVars>>

\* what an action of one program leaves alone of the others
offWorker == <<pipeVars, transVars, hashVars, orchVars, exeVars, calcVars>>
offPipeline == <<workerVars, transVars, hashVars, orchVars, exeVars,
                 calcVars>>
offTranscriber == <<workerVars, pipeVars, hashVars, orchVars, exeVars,
                    calcVars>>
offOrchestrator == <<workerVars, pipeVars, transVars, orchVars, exeVars,
                     calcVars>>
offSave == <<workerVars, pipeVars, transVars, hashVars, exeVars, calcVars>>
offExecute == <<workerVars, pipeVars, transVars, hashVars, opc,
                skip_existing, front_files, existing, artifacts, save_pc,
                export_idx, asr_runs, calcVars>>
offExport ==
    <<workerVars, pipeVars, transVars, hashVars, orchVars, exeVars,
      collectVars, splitVars, detectVars, diarVars,
      snapVars, pureVars, pathVars>>
offCollect ==
    <<workerVars, pipeVars, transVars, hashVars, orchVars, exeVars,
      exportVars, splitVars, detectVars, diarVars,
      snapVars, pureVars, pathVars>>
offSplit ==
    <<workerVars, pipeVars, transVars, hashVars, orchVars, exeVars,
      exportVars, collectVars, detectVars, diarVars,
      snapVars, pureVars, pathVars>>
offDetect ==
    <<workerVars, pipeVars, transVars, hashVars, orchVars, exeVars,
      exportVars, collectVars, splitVars, diarVars,
      snapVars, pureVars, pathVars>>
offDiar ==
    <<workerVars, pipeVars, transVars, hashVars, orchVars, exeVars,
      exportVars, collectVars, splitVars, detectVars,
      snapVars, pureVars, pathVars>>
offSnap ==
    <<workerVars, pipeVars, transVars, hashVars, orchVars, exeVars,
      exportVars, collectVars, splitVars, detectVars,
      diarVars, pureVars, pathVars>>
offPure ==
    <<workerVars, pipeVars, transVars, hashVars, orchVars, exeVars,
      exportVars, collectVars, splitVars, detectVars,
      diarVars, snapVars, pathVars>>
offPath ==
    <<workerVars, pipeVars, transVars, hashVars, orchVars, exeVars,
      exportVars, collectVars, splitVars, detectVars,
      diarVars, snapVars, pureVars>>

vars == <<workerVars, pipeVars, transVars, hashVars, orchVars, exeVars,
          calcVars>>

WorkerIds == 1..NumWorkers
VideoNames == 1..NumVideos

Absent == -1
Empty == 0
NoPath == [dir |-> "none", name |-> 0]
NoCall == [called |-> FALSE, name |-> 0, existed |-> FALSE, ret |-> FALSE]

\* os.path.join(STAGING_DIR, video)
JoinStaging(video) == [dir |-> "staging", name |-> video]

\* os.path.basename(video_path)
Basename(path) == path.name

\* sorted(...) of a set of names, smallest first
RECURSIVE Sorted(_)
Sorted(S) ==
    IF S = {} THEN <<>>
    ELSE LET m == CHOOSE x \in S : \A y \in S : x <= y
         IN <<m>> \o Sorted(S \ {m})

\* set(line.strip() for line in f)
LinesOf(file) == {v \in DOMAIN file : file[v] > 0}

WorkerInit ==
    /\ staging = VideoNames
    /\ processed_list = [v \in VideoNames |-> 0]
    /\ lockfile = [v \in VideoNames |-> Absent]
    /\ wpc = [w \in WorkerIds |-> "read_processed"]
    /\ processed = [w \in WorkerIds |-> {}]
    /\ videos = [w \in WorkerIds |-> <<>>]
    /\ vidx = [w \in WorkerIds |-> 1]
    /\ video_path = [w \in WorkerIds |-> NoPath]
    /\ claimRet = [w \in WorkerIds |-> NoCall]
    /\ claims = [v \in VideoNames |-> 0]
    /\ processedBy = [v \in VideoNames |-> 0]

\* get_next_video, lines 108-111: read the processed list
ReadProcessed(w) ==
    /\ UNCHANGED offWorker
    /\ wpc[w] = "read_processed"
    /\ processed' = [processed EXCEPT ![w] = LinesOf(processed_list)]
    /\ wpc' = [wpc EXCEPT ![w] = "listdir"]
    /\ UNCHANGED <<staging, processed_list, lockfile, videos, vidx,
                   video_path, claimRet, claims, processedBy>>

\* get_next_video, line 114: list and sort the staging directory
ListStaging(w) ==
    /\ UNCHANGED offWorker
    /\ wpc[w] = "listdir"
    /\ videos' = [videos EXCEPT ![w] = Sorted(staging)]
    /\ vidx' = [vidx EXCEPT ![w] = 1]
    /\ wpc' = [wpc EXCEPT ![w] = "scan"]
    /\ UNCHANGED <<staging, processed_list, lockfile, processed,
                   video_path, claimRet, claims, processedBy>>

\* Mutant of OpenExclusive: the lock file is opened without O_EXCL, so the
\* open succeeds whether or not the file exists.
OpenNotExclusive(w, i, path) ==
    LET name == Basename(path)
        existed == lockfile[name] # Absent
    IN /\ claimRet' = [claimRet EXCEPT ![w] =
              [called |-> TRUE, name |-> name, existed |-> existed,
               ret |-> TRUE]]
       /\ lockfile' = [lockfile EXCEPT ![name] = Empty]
       /\ video_path' = [video_path EXCEPT ![w] = path]
       /\ claims' = [claims EXCEPT ![name] = @ + 1]
       /\ wpc' = [wpc EXCEPT ![w] = "write_lock"]
       /\ UNCHANGED vidx

\* try_claim_video, line 76: os.open(lock_file, O_CREAT | O_EXCL | O_WRONLY).
\* The exclusive create is one atomic step of the file system: it fails with
\* FileExistsError iff the file exists, and creates it otherwise.
OpenExclusive(w, i, path) ==
    LET name == Basename(path)
        existed == lockfile[name] # Absent
    IN /\ claimRet' = [claimRet EXCEPT ![w] =
              [called |-> TRUE, name |-> name, existed |-> existed,
               ret |-> ~existed]]
       /\ IF existed
          THEN \* except FileExistsError: return False; next loop iteration
               /\ vidx' = [vidx EXCEPT ![w] = i + 1]
               /\ UNCHANGED <<lockfile, wpc, video_path, claims>>
          ELSE /\ lockfile' = [lockfile EXCEPT ![name] = Empty]
               /\ video_path' = [video_path EXCEPT ![w] = path]
               /\ claims' = [claims EXCEPT ![name] = @ + 1]
               /\ wpc' = [wpc EXCEPT ![w] = "write_lock"]
               /\ UNCHANGED vidx

\* get_next_video, lines 116-119: the loop skips the videos in `processed`;
\* the index of the next entry of `videos` at or after i that is not skipped
\* (Len + 1 when there is none)
RECURSIVE NextUnprocessed(_, _, _)
NextUnprocessed(vs, done, i) ==
    IF i > Len(vs) THEN i
    ELSE IF vs[i] \in done THEN NextUnprocessed(vs, done, i + 1)
    ELSE i

\* get_next_video, lines 116-124: the loop runs to its next unprocessed video
\* and tries to claim it
TryClaim(w) ==
    LET i == NextUnprocessed(videos[w], processed[w], vidx[w])
    IN /\ wpc[w] = "scan"
       /\ i <= Len(videos[w])
       /\ OpenExclusive(w, i, JoinStaging(videos[w][i]))
       /\ UNCHANGED <<staging, processed_list, processed, videos, processedBy>>
       /\ UNCHANGED offWorker

\* get_next_video returns None (line 126); run() sleeps and calls it again.
\* The locals of get_next_video end with the call.
ScanEnd(w) ==
    /\ UNCHANGED offWorker
    /\ wpc[w] = "scan"
    /\ NextUnprocessed(videos[w], processed[w], vidx[w]) > Len(videos[w])
    /\ wpc' = [wpc EXCEPT ![w] = "read_processed"]
    /\ processed' = [processed EXCEPT ![w] = {}]
    /\ videos' = [videos EXCEPT ![w] = <<>>]
    /\ vidx' = [vidx EXCEPT ![w] = 1]
    /\ claimRet' = [claimRet EXCEPT ![w] = NoCall]
    /\ UNCHANGED <<staging, processed_list, lockfile, video_path, claims,
                   processedBy>>

\* try_claim_video, lines 77-79: write the worker id, close, return True;
\* get_next_video returns the path (line 124) and its locals end
WriteLock(w) ==
    /\ UNCHANGED offWorker
    /\ wpc[w] = "write_lock"
    /\ lockfile' = [lockfile EXCEPT ![Basename(video_path[w])] = w]
    /\ wpc' = [wpc EXCEPT ![w] = "process"]
    /\ processed' = [processed EXCEPT ![w] = {}]
    /\ videos' = [videos EXCEPT ![w] = <<>>]
    /\ vidx' = [vidx EXCEPT ![w] = 1]
    /\ claimRet' = [claimRet EXCEPT ![w] = NoCall]
    /\ UNCHANGED <<staging, processed_list, video_path, claims, processedBy>>

\* run(), line 233: process_video; it opens the video only if the file is
\* still there (cap.isOpened()), and returns [] otherwise
ProcessVideo(w) ==
    /\ UNCHANGED offWorker
    /\ wpc[w] = "process"
    /\ LET name == Basename(video_path[w])
       IN processedBy' = [processedBy EXCEPT ![name] =
              IF name \in staging THEN @ + 1 ELSE @]
    /\ wpc' = [wpc EXCEPT ![w] = "rel_lock"]
    /\ UNCHANGED <<staging, processed_list, lockfile, processed, videos, vidx,
                   video_path, claimRet, claims>>

\* Mutant of ReleaseLock: the lock file is not removed.
ReleaseLockKept(w) ==
    /\ UNCHANGED offWorker
    /\ wpc[w] = "rel_lock"
    /\ wpc' = [wpc EXCEPT ![w] = "rel_append"]
    /\ UNCHANGED <<staging, processed_list, lockfile, processed, videos, vidx,
                   video_path, claimRet, claims, processedBy>>

\* release_video, lines 89-92: os.remove(lock_file), errors ignored
ReleaseLock(w) ==
    /\ UNCHANGED offWorker
    /\ wpc[w] = "rel_lock"
    /\ lockfile' = [lockfile EXCEPT ![Basename(video_path[w])] = Absent]
    /\ wpc' = [wpc EXCEPT ![w] = "rel_append"]
    /\ UNCHANGED <<staging, processed_list, processed, videos, vidx,
                   video_path, claimRet, claims, processedBy>>

\* release_video, lines 95-96: append the name to the processed list
AppendProcessed(w) ==
    /\ UNCHANGED offWorker
    /\ wpc[w] = "rel_append"
    /\ processed_list' = [processed_list EXCEPT ![Basename(video_path[w])] = @ + 1]
    /\ wpc' = [wpc EXCEPT ![w] = "rel_delete"]
    /\ UNCHANGED <<staging, lockfile, processed, videos, vidx,
                   video_path, claimRet, claims, processedBy>>

\* release_video, lines 99-102: os.remove(video_path), errors ignored;
\* run() then loops to get_next_video
DeleteVideo(w) ==
    /\ UNCHANGED offWorker
    /\ wpc[w] = "rel_delete"
    /\ staging' = staging \ {Basename(video_path[w])}
    /\ video_path' = [video_path EXCEPT ![w] = NoPath]
    /\ wpc' = [wpc EXCEPT ![w] = "read_processed"]
    /\ UNCHANGED <<processed_list, lockfile, processed, videos, vidx,
                   claimRet, claims, processedBy>>

\* the worker process stops (it is killed, or process_video takes the
\* process down) after try_claim_video returned True and before
\* release_video is called; at most one worker stops
Crash(w) ==
    /\ UNCHANGED offWorker
    /\ wpc[w] \in {"process", "rel_lock"}
    /\ \A u \in WorkerIds : wpc[u] # "stopped"
    /\ wpc' = [wpc EXCEPT ![w] = "stopped"]
    /\ UNCHANGED <<staging, processed_list, lockfile, processed, videos, vidx,
                   video_path, claimRet, claims, processedBy>>

\* run(), lines 212-246: the steps of worker process w
Run(w) ==
    \/ ReadProcessed(w)
    \/ ListStaging(w)
    \/ TryClaim(w)
    \/ ScanEnd(w)
    \/ WriteLock(w)
    \/ ProcessVideo(w)
    \/ ReleaseLock(w)
    \/ AppendProcessed(w)
    \/ DeleteVideo(w)

NextWorker ==
    \E w \in WorkerIds :
        \/ ReadProcessed(w)
        \/ ListStaging(w)
        \/ TryClaim(w)
        \/ ScanEnd(w)
        \/ WriteLock(w)
        \/ ProcessVideo(w)
        \/ ReleaseLock(w)
        \/ AppendProcessed(w)
        \/ DeleteVideo(w)


(***************************************************************************)
(* gpu_pipeline.py                                                         *)
(***************************************************************************)
\* GPUTranscriptionWorker.process_job, line 204: the allocator cache is
\* released when the worker's job count is a multiple of this
CacheClearEvery == 10

GpuIds == 0..(MaxGpus - 1)
\* the largest machine of the model
GpuLimit == IF ManyGpus > MaxGpus THEN ManyGpus ELSE MaxGpus
ExecThreads == {<<"exec", t>> : t \in 1..GpuLimit}
Consumers == {<<"cons", c>> : c \in 1..MaxGpus}
Runners == ExecThreads \cup Consumers

None == 0
NoWorker == 0

\* TranscriptionJob(job_id, input_path, output_path, options, priority):
\* the dataclass defaults of lines 40-45
NewJob(input_file, priority) ==
    [input_path |-> input_file, priority |-> priority, gpu_id |-> -1,
     status |-> "pending", start_time |-> FALSE, end_time |-> FALSE,
     result |-> FALSE, error |-> FALSE]

\* GPUWorkerStats(gpu_id): the dataclass defaults of lines 52-55
NewStats == [jobs_completed |-> 0, jobs_failed |-> 0, current_job |-> None]

\* no get_statistics call has returned yet
NoStatistics == [pipeline |-> <<>>, workers |-> <<>>, aggregate |-> <<>>]

\* ParallelGPUPipeline.__init__, lines 427-432
PipeConstructed ==
    /\ gpu_count \in 1..MaxGpus
    /\ workers = <<>>
    /\ executor = "none"
    /\ max_workers = 0
    /\ shutdown_flag = FALSE
    /\ job_queue = <<>>
    /\ result_queue = <<>>
    /\ jobs = <<>>
    /\ stats = <<>>
    /\ work_queue = <<>>
    /\ future = <<>>
    /\ out_of_order = FALSE
    /\ rpc = [r \in Runners |-> "off"]
    /\ rjob = [r \in Runners |-> None]
    /\ rworker = [r \in Runners |-> NoWorker]
    /\ cpc = "idle"
    /\ input_files = <<>>
    /\ idx = 0
    /\ futures = <<>>
    /\ completed_jobs = <<>>
    /\ ret = <<>>
    /\ raised = "none"
    /\ calls = 0
    /\ statistics = NoStatistics
    /\ spc = "idle"

\* The number of jobs each worker has completed in the calls made on the
\* pipeline before the one modelled: none, or one short of the next cache
\* release (an earlier process_batch of 9 * gpu_count inputs).
PriorJobs == {0, CacheClearEvery - 1}

\* The pipeline after initialize() (lines 436-456) has succeeded and its
\* workers have run earlier calls: one worker per GPU in gpu_id order, an
\* executor of max_concurrent_gpus = gpu_count threads
\* (hardware_optimizer.py, line 367), all threads idle.
PipeInitializedOn(n) ==
    /\ gpu_count = n
    /\ workers = [k \in 1..gpu_count |-> k - 1]
    /\ executor = "running"
    /\ max_workers = gpu_count
    /\ shutdown_flag = FALSE
    /\ job_queue = <<>>
    /\ result_queue = <<>>
    /\ jobs = <<>>
    /\ \E c \in PriorJobs :
          stats = [k \in 1..gpu_count |-> [NewStats EXCEPT !.jobs_completed = c]]
    /\ work_queue = <<>>
    /\ future = <<>>
    /\ out_of_order = FALSE
    /\ rpc = [r \in Runners |->
                IF r \in ExecThreads /\ r[2] <= gpu_count THEN "idle" ELSE "off"]
    /\ rjob = [r \in Runners |-> None]
    /\ rworker = [r \in Runners |-> NoWorker]
    /\ cpc = "idle"
    /\ input_files = <<>>
    /\ idx = 0
    /\ futures = <<>>
    /\ completed_jobs = <<>>
    /\ ret = <<>>
    /\ raised = "none"
    /\ calls = 0
    /\ statistics = NoStatistics
    /\ spc = "idle"

\* machines of 1..MaxGpus GPUs
PipeInitialized == \E n \in 1..MaxGpus : PipeInitializedOn(n)

(***************************************************************************)
(* GPUTranscriptionWorker.process_job, run by thread r for job rjob[r] on  *)
(* worker rworker[r].  Each `with self._lock:` block is one step.          *)
(***************************************************************************)
\* lines 158-162
PJBegin(r) ==
    /\ rpc[r] = "pj_begin"
    /\ stats' = [stats EXCEPT ![rworker[r]].current_job = rjob[r]]
    /\ jobs' = [jobs EXCEPT ![rjob[r]].status = "processing",
                            ![rjob[r]].start_time = TRUE,
                            ![rjob[r]].gpu_id = workers[rworker[r]]]
    /\ rpc' = [rpc EXCEPT ![r] = "pj_body"]
    /\ UNCHANGED <<offPipeline, pipeObj, queueVars, execVars, rjob, rworker,
                   callVars, spc>>

\* lines 164-182: transcription, diarization, confidence and saving succeed
PJBodyOk(r) ==
    /\ rpc[r] = "pj_body"
    /\ jobs' = [jobs EXCEPT ![rjob[r]].result = TRUE,
                            ![rjob[r]].status = "completed"]
    /\ rpc' = [rpc EXCEPT ![r] = "pj_count_ok"]
    /\ UNCHANGED <<offPipeline, pipeObj, queueVars, stats, execVars, rjob,
                   rworker, callVars, spc>>

\* lines 187-190: one of the calls of lines 166-179 raised
PJBodyFail(r) ==
    /\ rpc[r] = "pj_body"
    /\ jobs' = [jobs EXCEPT ![rjob[r]].error = TRUE,
                            ![rjob[r]].status = "failed"]
    /\ rpc' = [rpc EXCEPT ![r] = "pj_count_fail"]
    /\ UNCHANGED <<offPipeline, pipeObj, queueVars, stats, execVars, rjob,
                   rworker, callVars, spc>>

\* lines 184-185
PJCountOk(r) ==
    /\ rpc[r] = "pj_count_ok"
    /\ stats' = [stats EXCEPT ![rworker[r]].jobs_completed = @ + 1]
    /\ rpc' = [rpc EXCEPT ![r] = "pj_finally"]
    /\ UNCHANGED <<offPipeline, pipeObj, queueVars, jobs, execVars, rjob,
                   rworker, callVars, spc>>

\* Mutant of PJCountFail: the failure is counted in jobs_completed.
PJCountFailAsCompleted(r) ==
    /\ rpc[r] = "pj_count_fail"
    /\ stats' = [stats EXCEPT ![rworker[r]].jobs_completed = @ + 1]
    /\ rpc' = [rpc EXCEPT ![r] = "pj_finally"]
    /\ UNCHANGED <<offPipeline, pipeObj, queueVars, jobs, execVars, rjob,
                   rworker, callVars, spc>>

\* lines 192-193
PJCountFail(r) ==
    /\ rpc[r] = "pj_count_fail"
    /\ stats' = [stats EXCEPT ![rworker[r]].jobs_failed = @ + 1]
    /\ rpc' = [rpc EXCEPT ![r] = "pj_finally"]
    /\ UNCHANGED <<offPipeline, pipeObj, queueVars, jobs, execVars, rjob,
                   rworker, callVars, spc>>

\* lines 196-201
PJFinally(r) ==
    /\ rpc[r] = "pj_finally"
    /\ jobs' = [jobs EXCEPT ![rjob[r]].end_time = TRUE]
    /\ stats' = [stats EXCEPT ![rworker[r]].current_job = None]
    /\ rpc' = [rpc EXCEPT ![r] = "pj_cache"]
    /\ UNCHANGED <<offPipeline, pipeObj, queueVars, execVars, rjob, rworker,
                   callVars, spc>>

\* line 204: (jobs_completed + jobs_failed) % 10 == 0, read without the lock
CacheDue(k) ==
    (stats[k].jobs_completed + stats[k].jobs_failed) % CacheClearEvery = 0

\* lines 204-207: no cache release is due, or torch.cuda.empty_cache()
\* returns; process_job returns the job
PJReturn(r) ==
    /\ rpc[r] = "pj_cache"
    /\ rpc' = [rpc EXCEPT ![r] = "pj_returned"]
    /\ UNCHANGED <<offPipeline, pipeObj, queueVars, jobs, stats, execVars,
                   rjob, rworker, callVars, spc>>

\* lines 204-205: torch.cuda.empty_cache() raises inside the finally block
\* (a CUDA error left by the job); the exception leaves process_job
PJCacheRaise(r) ==
    /\ rpc[r] = "pj_cache"
    /\ CacheDue(rworker[r])
    /\ rpc' = [rpc EXCEPT ![r] = "pj_raised"]
    /\ UNCHANGED <<offPipeline, pipeObj, queueVars, jobs, stats, execVars,
                   rjob, rworker, callVars, spc>>

(***************************************************************************)
(* concurrent.futures.ThreadPoolExecutor, as process_batch uses it.        *)
(***************************************************************************)
\* an executor thread takes the oldest work item and calls
\* worker.process_job(job)
ExecTake(r) ==
    /\ rpc[r] = "idle"
    /\ work_queue # <<>>
    /\ rjob' = [rjob EXCEPT ![r] = Head(work_queue).job]
    /\ rworker' = [rworker EXCEPT ![r] = Head(work_queue).worker]
    /\ future' = [future EXCEPT ![Head(work_queue).job] = "running"]
    /\ work_queue' = Tail(work_queue)
    /\ rpc' = [rpc EXCEPT ![r] = "pj_begin"]
    /\ UNCHANGED <<offPipeline, pipeObj, queueVars, jobs, stats, out_of_order,
                   callVars, spc>>

\* a job submitted before job j whose future is not resolved yet
EarlierUnresolved(j) ==
    \E i \in 1..Len(future) : i < j /\ future[i] \in {"pending", "running"}

\* the call returned: future.set_result(job)
ExecSetResult(r) ==
    /\ r \in ExecThreads
    /\ rpc[r] = "pj_returned"
    /\ future' = [future EXCEPT ![rjob[r]] = "result"]
    /\ rpc' = [rpc EXCEPT ![r] = "idle"]
    /\ rjob' = [rjob EXCEPT ![r] = None]
    /\ rworker' = [rworker EXCEPT ![r] = NoWorker]
    /\ out_of_order' = (out_of_order \/ EarlierUnresolved(rjob[r]))
    /\ UNCHANGED <<offPipeline, pipeObj, queueVars, jobs, stats, work_queue,
                   callVars, spc>>

\* the call raised: future.set_exception(e)
ExecSetException(r) ==
    /\ r \in ExecThreads
    /\ rpc[r] = "pj_raised"
    /\ future' = [future EXCEPT ![rjob[r]] = "exception"]
    /\ rpc' = [rpc EXCEPT ![r] = "idle"]
    /\ rjob' = [rjob EXCEPT ![r] = None]
    /\ rworker' = [rworker EXCEPT ![r] = NoWorker]
    /\ out_of_order' = (out_of_order \/ EarlierUnresolved(rjob[r]))
    /\ UNCHANGED <<offPipeline, pipeObj, queueVars, jobs, stats, work_queue,
                   callVars, spc>>

(***************************************************************************)
(* ParallelGPUPipeline.process_batch                                       *)
(***************************************************************************)
\* the calling thread is between two calls of the public operations
CallerReady == cpc \in {"idle", "returned"}

\* input_files of a call: n distinct files
InputList(n) == [i \in 1..n |-> i]

\* Mutant of WorkerFor: the index is divided instead of reduced, so the first
\* len(workers) inputs all go to the first worker.
WorkerForDiv(i) == ((i \div Len(workers)) % Len(workers)) + 1

\* line 480: self.workers[i % len(self.workers)], as a position of workers
WorkerFor(i) == (i % Len(workers)) + 1

\* lines 461-476: the executor exists, so initialize() is not called; one
\* job per input, in input order, with priority i
BatchStart(n) ==
    /\ CallerReady
    /\ executor # "none"
    /\ input_files' = InputList(n)
    /\ jobs' = jobs \o [i \in 1..n |-> NewJob(InputList(n)[i], i - 1)]
    /\ future' = future \o [i \in 1..n |-> "none"]
    /\ futures' = <<>>
    /\ completed_jobs' = <<>>
    /\ idx' = 0
    /\ cpc' = IF n = 0 THEN "pb_collect" ELSE "pb_submit"
    /\ calls' = calls + 1
    /\ UNCHANGED <<offPipeline, pipeObj, queueVars, stats, work_queue,
                   out_of_order, runVars, ret, raised, statistics, spc>>

\* lines 479-482, one iteration: executor.submit(worker.process_job, job)
BatchSubmit ==
    /\ cpc = "pb_submit"
    /\ executor = "running"
    /\ LET j == Len(jobs) - Len(input_files) + idx + 1
       IN /\ work_queue' = Append(work_queue,
                                  [worker |-> WorkerFor(idx), job |-> j])
          /\ future' = [future EXCEPT ![j] = "pending"]
          /\ futures' = Append(futures, j)
    /\ idx' = idx + 1
    /\ cpc' = IF idx + 1 = Len(input_files) THEN "pb_collect" ELSE "pb_submit"
    /\ UNCHANGED <<offPipeline, pipeObj, queueVars, jobs, stats, out_of_order,
                   runVars, input_files, completed_jobs, ret, raised, calls,
                   statistics, spc>>

\* Mutant of BatchCollectResult: the results are collected in the order the
\* futures resolve (as_completed) instead of the order of submission.
BatchCollectAsCompleted ==
    /\ cpc = "pb_collect"
    /\ Len(completed_jobs) < Len(futures)
    /\ \E i \in 1..Len(futures) :
          /\ future[futures[i]] = "result"
          /\ \A c \in 1..Len(completed_jobs) : completed_jobs[c] # futures[i]
          /\ completed_jobs' = Append(completed_jobs, futures[i])
    /\ UNCHANGED <<offPipeline, pipeObj, queueVars, jobs, stats, execVars,
                   runVars, cpc, input_files, idx, futures, ret, raised,
                   calls, statistics, spc>>

\* lines 486-490: future.result() returns the job process_job returned
BatchCollectResult ==
    /\ cpc = "pb_collect"
    /\ Len(completed_jobs) < Len(futures)
    /\ LET j == futures[Len(completed_jobs) + 1]
       IN /\ future[j] = "result"
          /\ completed_jobs' = Append(completed_jobs, j)
    /\ UNCHANGED <<offPipeline, pipeObj, queueVars, jobs, stats, execVars,
                   runVars, cpc, input_files, idx, futures, ret, raised,
                   calls, statistics, spc>>

\* Mutant of BatchCollectException: the handler appends the job without
\* marking it failed.
BatchCollectExceptionUnmarked ==
    /\ cpc = "pb_collect"
    /\ Len(completed_jobs) < Len(futures)
    /\ LET j == futures[Len(completed_jobs) + 1]
       IN /\ future[j] = "exception"
          /\ completed_jobs' = Append(completed_jobs, j)
    /\ UNCHANGED <<offPipeline, pipeObj, queueVars, jobs, stats, execVars,
                   runVars, cpc, input_files, idx, futures, ret, raised,
                   calls, statistics, spc>>

\* lines 491-495: future.result() raises what process_job raised
BatchCollectException ==
    /\ cpc = "pb_collect"
    /\ Len(completed_jobs) < Len(futures)
    /\ LET j == futures[Len(completed_jobs) + 1]
       IN /\ future[j] = "exception"
          /\ jobs' = [jobs EXCEPT ![j].status = "failed", ![j].error = TRUE]
          /\ completed_jobs' = Append(completed_jobs, j)
    /\ UNCHANGED <<offPipeline, pipeObj, queueVars, stats, execVars,
                   runVars, cpc, input_files, idx, futures, ret, raised,
                   calls, statistics, spc>>

\* line 497
BatchReturn ==
    /\ cpc = "pb_collect"
    /\ Len(completed_jobs) = Len(futures)
    /\ ret' = completed_jobs
    /\ cpc' = "returned"
    /\ UNCHANGED <<offPipeline, pipeObj, queueVars, jobs, stats, execVars,
                   runVars, input_files, idx, futures, completed_jobs, raised,
                   calls, statistics, spc>>

ProcessJobStep(r) ==
    \/ PJBegin(r)
    \/ PJBodyOk(r)
    \/ PJBodyFail(r)
    \/ PJCountOk(r)
    \/ PJCountFail(r)
    \/ PJFinally(r)
    \/ PJReturn(r)
    \/ PJCacheRaise(r)

NextBatch ==
    \/ \E n \in 0..MaxInputs : calls = 0 /\ BatchStart(n)
    \/ BatchSubmit
    \/ BatchCollectResult
    \/ BatchCollectException
    \/ BatchReturn
    \/ \E r \in ExecThreads :
          \/ ExecTake(r)
          \/ ProcessJobStep(r)
          \/ ExecSetResult(r)
          \/ ExecSetException(r)

(***************************************************************************)
(* ParallelGPUPipeline.process_stream                                      *)
(***************************************************************************)
\* lines 502-504: the executor exists, so initialize() is not called; the
\* generator will yield n inputs
StreamStart(n) ==
    /\ CallerReady
    /\ executor # "none"
    /\ input_files' = InputList(n)
    /\ futures' = <<>>
    /\ completed_jobs' = <<>>
    /\ idx' = 0
    /\ cpc' = "ps_threads"
    /\ calls' = calls + 1
    /\ UNCHANGED <<offPipeline, pipeObj, queueVars, jobs, stats, execVars,
                   runVars, ret, raised, statistics, spc>>

\* lines 507-513, one iteration: the thread of the next worker is started
\* at the head of _worker_loop; after the last one the generator is
\* consumed, which is already exhausted if it yields nothing
StreamStartThread ==
    /\ cpc = "ps_threads"
    /\ LET c == <<"cons", idx + 1>>
       IN /\ rpc' = [rpc EXCEPT ![c] = "wl_check"]
          /\ rjob' = [rjob EXCEPT ![c] = None]
          /\ rworker' = [rworker EXCEPT ![c] = idx + 1]
    /\ idx' = IF idx + 1 = Len(workers) THEN 0 ELSE idx + 1
    /\ cpc' = IF idx + 1 < Len(workers) THEN "ps_threads"
              ELSE IF input_files = <<>> THEN "ps_sentinel"
              ELSE "ps_produce"
    /\ UNCHANGED <<offPipeline, pipeObj, queueVars, jobs, stats, execVars,
                   input_files, futures, completed_jobs, ret, raised, calls,
                   statistics, spc>>

\* lines 517-529, one iteration with the flag clear: a job for the next
\* input (priority 0, the dataclass default) is put on the job queue
StreamProduce ==
    /\ cpc = "ps_produce"
    /\ ~shutdown_flag
    /\ jobs' = Append(jobs, NewJob(input_files[idx + 1], 0))
    /\ future' = Append(future, "none")
    /\ job_queue' = Append(job_queue, Len(jobs) + 1)
    /\ idx' = IF idx + 1 = Len(input_files) THEN 0 ELSE idx + 1
    /\ cpc' = IF idx + 1 = Len(input_files) THEN "ps_sentinel"
              ELSE "ps_produce"
    /\ UNCHANGED <<offPipeline, pipeObj, result_queue, stats, work_queue,
                   out_of_order, runVars, input_files, futures,
                   completed_jobs, ret, raised, calls, statistics, spc>>

\* lines 518-519: the flag is set when the generator yields the next input
StreamBreak ==
    /\ cpc = "ps_produce"
    /\ shutdown_flag
    /\ idx' = 0
    /\ cpc' = "ps_sentinel"
    /\ UNCHANGED <<offPipeline, pipeObj, queueVars, jobs, stats, execVars,
                   runVars, input_files, futures, completed_jobs, ret,
                   raised, calls, statistics, spc>>

\* lines 532-533, one iteration: job_queue.put(None)
StreamPutSentinel ==
    /\ cpc = "ps_sentinel"
    /\ job_queue' = Append(job_queue, None)
    /\ idx' = IF idx + 1 = Len(workers) THEN 0 ELSE idx + 1
    /\ cpc' = IF idx + 1 = Len(workers) THEN "ps_join" ELSE "ps_sentinel"
    /\ UNCHANGED <<offPipeline, pipeObj, result_queue, jobs, stats, execVars,
                   runVars, input_files, futures, completed_jobs, ret,
                   raised, calls, statistics, spc>>

\* lines 536-537: every thread.join() has returned
StreamJoin ==
    /\ cpc = "ps_join"
    /\ \A k \in 1..Len(workers) : rpc[<<"cons", k>>] = "exited"
    /\ cpc' = "ps_collect"
    /\ UNCHANGED <<offPipeline, pipeObj, queueVars, jobs, stats, execVars,
                   runVars, input_files, idx, futures, completed_jobs, ret,
                   raised, calls, statistics, spc>>

\* lines 540-547: the result queue is emptied into the returned list (no
\* thread puts results any more)
StreamCollect ==
    /\ cpc = "ps_collect"
    /\ ret' = result_queue
    /\ result_queue' = <<>>
    /\ cpc' = "returned"
    /\ UNCHANGED <<offPipeline, pipeObj, job_queue, jobs, stats, execVars,
                   runVars, input_files, idx, futures, completed_jobs,
                   raised, calls, statistics, spc>>

(***************************************************************************)
(* ParallelGPUPipeline._worker_loop, run by consumer thread r              *)
(***************************************************************************)
\* line 552: `while not self._shutdown` finds the flag set
WlCheckExit(r) ==
    /\ rpc[r] = "wl_check"
    /\ shutdown_flag
    /\ rpc' = [rpc EXCEPT ![r] = "exited"]
    /\ UNCHANGED <<offPipeline, pipeObj, queueVars, jobs, stats, execVars,
                   rjob, rworker, callVars, spc>>

\* line 552: the flag is clear, the loop body is entered
WlCheckGo(r) ==
    /\ rpc[r] = "wl_check"
    /\ ~shutdown_flag
    /\ rpc' = [rpc EXCEPT ![r] = "wl_get"]
    /\ UNCHANGED <<offPipeline, pipeObj, queueVars, jobs, stats, execVars,
                   rjob, rworker, callVars, spc>>

\* lines 554-559: job_queue.get returns a job; process_job is called
WlGetJob(r) ==
    /\ rpc[r] = "wl_get"
    /\ job_queue # <<>>
    /\ Head(job_queue) # None
    /\ job_queue' = Tail(job_queue)
    /\ rjob' = [rjob EXCEPT ![r] = Head(job_queue)]
    /\ rpc' = [rpc EXCEPT ![r] = "pj_begin"]
    /\ UNCHANGED <<offPipeline, pipeObj, result_queue, jobs, stats, execVars,
                   rworker, callVars, spc>>

\* lines 554-557: job_queue.get returns None, the loop is left
WlGetNone(r) ==
    /\ rpc[r] = "wl_get"
    /\ job_queue # <<>>
    /\ Head(job_queue) = None
    /\ job_queue' = Tail(job_queue)
    /\ rpc' = [rpc EXCEPT ![r] = "exited"]
    /\ UNCHANGED <<offPipeline, pipeObj, result_queue, jobs, stats, execVars,
                   rjob, rworker, callVars, spc>>

\* lines 554, 562-563: the queue stayed empty for the timeout of 1 s
WlGetEmpty(r) ==
    /\ rpc[r] = "wl_get"
    /\ job_queue = <<>>
    /\ rpc' = [rpc EXCEPT ![r] = "wl_check"]
    /\ UNCHANGED <<offPipeline, pipeObj, queueVars, jobs, stats, execVars,
                   rjob, rworker, callVars, spc>>

\* lines 559-560: process_job returned; result_queue.put(result)
WlPutResult(r) ==
    /\ r \in Consumers
    /\ rpc[r] = "pj_returned"
    /\ result_queue' = Append(result_queue, rjob[r])
    /\ rjob' = [rjob EXCEPT ![r] = None]
    /\ rpc' = [rpc EXCEPT ![r] = "wl_check"]
    /\ UNCHANGED <<offPipeline, pipeObj, job_queue, jobs, stats, execVars,
                   rworker, callVars, spc>>

\* lines 564-565: process_job raised; the error is logged and the loop
\* goes on
WlExcept(r) ==
    /\ r \in Consumers
    /\ rpc[r] = "pj_raised"
    /\ rjob' = [rjob EXCEPT ![r] = None]
    /\ rpc' = [rpc EXCEPT ![r] = "wl_check"]
    /\ UNCHANGED <<offPipeline, pipeObj, queueVars, jobs, stats, execVars,
                   rworker, callVars, spc>>

WorkerLoopStep(r) ==
    \/ WlCheckExit(r)
    \/ WlCheckGo(r)
    \/ WlGetJob(r)
    \/ WlGetNone(r)
    \/ WlGetEmpty(r)
    \/ ProcessJobStep(r)
    \/ WlPutResult(r)
    \/ WlExcept(r)

(***************************************************************************)
(* ParallelGPUPipeline.get_statistics and shutdown                         *)
(***************************************************************************)
RECURSIVE SumOver(_, _)
\* sum(w[field] for w in stats['workers'])
SumOver(ws, field) ==
    IF ws = <<>> THEN 0 ELSE ws[1][field] + SumOver(Tail(ws), field)

\* lines 570-600, called while no other thread runs
GetStatistics ==
    /\ CallerReady
    /\ LET ws == [k \in 1..Len(workers) |->
                    [gpu_id |-> workers[k],
                     jobs_completed |-> stats[k].jobs_completed,
                     jobs_failed |-> stats[k].jobs_failed,
                     current_job |-> stats[k].current_job]]
       IN statistics' =
             [pipeline |-> [gpu_count |-> gpu_count,
                            active_workers |-> Len(workers),
                            jobs_in_queue |-> Len(job_queue),
                            results_ready |-> Len(result_queue)],
              workers |-> ws,
              aggregate |->
                  [total_jobs_completed |-> SumOver(ws, "jobs_completed"),
                   total_jobs_failed |-> SumOver(ws, "jobs_failed")]]
    /\ calls' = calls + 1
    /\ UNCHANGED <<offPipeline, pipeObj, queueVars, jobs, stats, execVars,
                   runVars, cpc, input_files, idx, futures, completed_jobs,
                   ret, raised, spc>>

\* line 605: self._shutdown = True
SdSetFlag ==
    /\ spc \in {"idle", "done"}
    /\ shutdown_flag' = TRUE
    /\ spc' = "sd_executor"
    /\ calls' = calls + 1
    /\ UNCHANGED <<offPipeline, gpu_count, workers, executor, max_workers,
                   queueVars, jobs, stats, execVars, runVars, cpc,
                   input_files, idx, futures, completed_jobs, ret, raised,
                   statistics>>

\* lines 607-608: executor.shutdown(wait=True) stops the executor from
\* taking new submissions
SdExecutor ==
    /\ spc = "sd_executor"
    /\ executor' = IF executor = "none" THEN "none" ELSE "shutdown"
    /\ spc' = "sd_wait"
    /\ UNCHANGED <<offPipeline, gpu_count, workers, max_workers,
                   shutdown_flag, queueVars, jobs, stats, execVars, runVars,
                   callVars>>

\* lines 608-615: the executor threads have run every queued work item and
\* are joined; the allocator cache of each worker's device is released
SdDone ==
    /\ spc = "sd_wait"
    /\ work_queue = <<>>
    /\ \A r \in ExecThreads : rpc[r] \in {"idle", "off"}
    /\ spc' = "done"
    /\ UNCHANGED <<offPipeline, pipeObj, queueVars, jobs, stats, execVars,
                   runVars, callVars>>

\* line 481 after executor.shutdown(): ThreadPoolExecutor.submit raises
\* RuntimeError('cannot schedule new futures after shutdown'), which leaves
\* process_batch
BatchSubmitRaise ==
    /\ cpc = "pb_submit"
    /\ executor = "shutdown"
    /\ raised' = "RuntimeError"
    /\ cpc' = "raised"
    /\ UNCHANGED <<offPipeline, pipeObj, queueVars, jobs, stats, execVars,
                   runVars, input_files, idx, futures, completed_jobs, ret,
                   calls, statistics, spc>>

(***************************************************************************)
(* optimized_transcribe_gpu.py: OptimizedGPUTranscriber                    *)
(***************************************************************************)
\* __init__, line 47: self.silence_threshold_db
silence_threshold_db == -60
\* __init__, line 44: self.batch_size
batch_size == 10

FileIds == 1..MaxFiles

\* an optional value: <<>> is Python's None, <<v>> the value v
NoValue == <<>>
Some(v) == <<v>>

\* the volumes ffmpeg's volumedetect may report, in dB
MaxVolumes == {silence_threshold_db - 1, silence_threshold_db}
MeanVolumes == {silence_threshold_db - 10}

\* what the ffmpeg run of check_audio_level does: it exceeds the timeout of
\* 5 s, fails to start, or ends with an output in which a max_volume and a
\* mean_volume line may each be found and parsed
ProbeRuns ==
    [kind : {"timeout", "error"}, max_vol : {NoValue}, mean_vol : {NoValue}]
    \cup [kind : {"output"},
          max_vol : {NoValue} \cup {Some(v) : v \in MaxVolumes},
          mean_vol : {NoValue} \cup {Some(v) : v \in MeanVolumes}]

\* Mutant of CheckAudioLevel: a maximum at the threshold counts as silence.
CheckAudioLevelInclusive(run) ==
    IF run.kind # "output" THEN <<"unknown", NoValue>>
    ELSE IF run.max_vol = NoValue \/ run.mean_vol = NoValue
         THEN <<"unknown", NoValue>>
    ELSE LET levels == Some([max |-> run.max_vol[1], mean |-> run.mean_vol[1]])
         IN IF run.max_vol[1] <= silence_threshold_db
            THEN <<"silent", levels>>
            ELSE <<"has_audio", levels>>

\* check_audio_level, lines 86-135: the (status, levels) it returns
CheckAudioLevel(run) ==
    IF run.kind # "output" THEN <<"unknown", NoValue>>
    ELSE IF run.max_vol = NoValue \/ run.mean_vol = NoValue
         THEN <<"unknown", NoValue>>
    ELSE LET levels == Some([max |-> run.max_vol[1], mean |-> run.mean_vol[1]])
         IN IF run.max_vol[1] < silence_threshold_db
            THEN <<"silent", levels>>
            ELSE <<"has_audio", levels>>

\* save_transcript, lines 235-257: the data written to transcript.json
TranscriptData(segments, audio_levels, is_silent) ==
    [is_silent |-> is_silent, audio_levels |-> audio_levels,
     segments |-> segments]

NoReport == [silent_skipped |-> 0, transcribed |-> 0, failed |-> 0,
             written |-> FALSE]

\* no transcriber runs
TransIdle ==
    /\ ot_pc = "off"
    /\ file_ids = <<>>
    /\ transcripts = [f \in FileIds |-> NoValue]
    /\ files_to_process = <<>>
    /\ check_idx = 0
    /\ probe_run = [f \in FileIds |-> NoValue]
    /\ silent_files = <<>>
    /\ audio_files = <<>>
    /\ unknown_files = <<>>
    /\ audio_extracted = {}
    /\ batch_i = 0
    /\ completed = 0
    /\ failed = 0
    /\ report = NoReport
    /\ extract_calls = {}
    /\ transcribe_calls = {}

\* __init__ and the state of the disk when process_files is called: the
\* list names up to MaxFiles existing videos, some of which have a
\* transcript.json of an earlier run
TransInit ==
    /\ ot_pc = "start"
    /\ \E n \in 0..MaxFiles : file_ids = [k \in 1..n |-> k]
    /\ \E done \in SUBSET FileIds :
          transcripts = [f \in FileIds |->
              IF f \in done /\ f <= Len(file_ids)
              THEN Some(TranscriptData(1, NoValue, FALSE)) ELSE NoValue]
    /\ files_to_process = <<>>
    /\ check_idx = 0
    /\ probe_run = [f \in FileIds |-> NoValue]
    /\ silent_files = <<>>
    /\ audio_files = <<>>
    /\ unknown_files = <<>>
    /\ audio_extracted = {}
    /\ batch_i = 0
    /\ completed = 0
    /\ failed = 0
    /\ report = NoReport
    /\ extract_calls = {}
    /\ transcribe_calls = {}

\* the files of a list of (file, levels) pairs
FilesOf(pairs) == {pairs[k][1] : k \in 1..Len(pairs)}

\* Mutant of ToTranscribe: the silent files are transcribed too.
ToTranscribeAll == silent_files \o audio_files \o unknown_files

\* process_files, line 339
ToTranscribe == audio_files \o unknown_files

\* process_files, lines 292-303: the listed files that have no
\* transcript.json yet
OtStart ==
    /\ ot_pc = "start"
    /\ files_to_process' =
          SelectSeq(file_ids, LAMBDA f : transcripts[f] = NoValue)
    /\ ot_pc' = "check"
    /\ UNCHANGED <<offTranscriber, file_ids, transcripts, check_idx,
                   probe_run, silent_files, audio_files, unknown_files,
                   audio_extracted, batch_i, completed, failed, report,
                   extract_calls, transcribe_calls>>

\* process_files, lines 313-320, one iteration: the next file is probed
\* and put on the list of its status
OtCheck ==
    /\ ot_pc = "check"
    /\ check_idx < Len(files_to_process)
    /\ \E run \in ProbeRuns :
          LET mp4_file == files_to_process[check_idx + 1]
              got == CheckAudioLevel(run)
              item == <<mp4_file, got[2]>>
          IN /\ probe_run' = [probe_run EXCEPT ![mp4_file] = Some(run)]
             /\ silent_files' = IF got[1] = "silent"
                                THEN Append(silent_files, item)
                                ELSE silent_files
             /\ audio_files' = IF got[1] = "has_audio"
                               THEN Append(audio_files, item)
                               ELSE audio_files
             /\ unknown_files' = IF got[1] \notin {"silent", "has_audio"}
                                 THEN Append(unknown_files, item)
                                 ELSE unknown_files
    /\ check_idx' = check_idx + 1
    /\ UNCHANGED <<offTranscriber, ot_pc, file_ids, transcripts,
                   files_to_process, audio_extracted, batch_i, completed,
                   failed, report, extract_calls, transcribe_calls>>

\* process_files, lines 333-344: a stub is saved for every silent file;
\* process_files returns if nothing is left to transcribe
OtMarkSilent ==
    /\ ot_pc = "check"
    /\ check_idx = Len(files_to_process)
    /\ transcripts' = [f \in FileIds |->
          IF \E k \in 1..Len(silent_files) : silent_files[k][1] = f
          THEN LET k == CHOOSE k \in 1..Len(silent_files) :
                            silent_files[k][1] = f
               IN Some(TranscriptData(0, silent_files[k][2], TRUE))
          ELSE transcripts[f]]
    /\ ot_pc' = IF ToTranscribe = <<>> THEN "returned" ELSE "batch"
    /\ UNCHANGED <<offTranscriber, file_ids, files_to_process, check_idx,
                   probe_run, silent_files, audio_files, unknown_files,
                   audio_extracted, batch_i, completed, failed, report,
                   extract_calls, transcribe_calls>>

\* the batch of line 352
Batch ==
    LET last == IF batch_i + batch_size < Len(ToTranscribe)
                THEN batch_i + batch_size ELSE Len(ToTranscribe)
    IN SubSeq(ToTranscribe, batch_i + 1, last)

\* process_files, line 356, extract_audio_batch, lines 137-172: ffmpeg is
\* run for every file of the batch; the files whose run raised (timeout of
\* 30 s) are left out of the list returned
OtExtractBatch ==
    /\ ot_pc = "batch"
    /\ extract_calls' = extract_calls \cup FilesOf(Batch)
    /\ \E ok \in SUBSET FilesOf(Batch) : audio_extracted' = ok
    /\ ot_pc' = "transcribe"
    /\ UNCHANGED <<offTranscriber, file_ids, transcripts, files_to_process,
                   check_idx, probe_run, silent_files, audio_files,
                   unknown_files, batch_i, completed, failed, report,
                   transcribe_calls>>

\* process_files, lines 359-366: transcribe_audio_file returns a result,
\* which is saved with the levels of the file
OtTranscribeOk(mp4_file) ==
    /\ ot_pc = "transcribe"
    /\ mp4_file \in audio_extracted
    /\ LET k == CHOOSE k \in 1..Len(Batch) : Batch[k][1] = mp4_file
       IN transcripts' = [transcripts EXCEPT ![mp4_file] =
              Some(TranscriptData(1, Batch[k][2], FALSE))]
    /\ completed' = completed + 1
    /\ transcribe_calls' = transcribe_calls \cup {mp4_file}
    /\ audio_extracted' = audio_extracted \ {mp4_file}
    /\ UNCHANGED <<offTranscriber, ot_pc, file_ids, files_to_process,
                   check_idx, probe_run, silent_files, audio_files,
                   unknown_files, batch_i, failed, report, extract_calls>>

\* process_files, lines 361, 367-368: transcribe_audio_file returns None
\* (lines 225-227); or lines 374-376: saving the result raised
OtTranscribeFailed(mp4_file) ==
    /\ ot_pc = "transcribe"
    /\ mp4_file \in audio_extracted
    /\ failed' = failed + 1
    /\ transcribe_calls' = transcribe_calls \cup {mp4_file}
    /\ audio_extracted' = audio_extracted \ {mp4_file}
    /\ UNCHANGED <<offTranscriber, ot_pc, file_ids, transcripts,
                   files_to_process, check_idx, probe_run, silent_files,
                   audio_files, unknown_files, batch_i, completed, report,
                   extract_calls>>

\* process_files, lines 351, 378-412: the batch is done; after the last
\* batch the report is written
OtBatchEnd ==
    /\ ot_pc = "transcribe"
    /\ audio_extracted = {}
    /\ batch_i' = batch_i + batch_size
    /\ IF batch_i + batch_size < Len(ToTranscribe)
       THEN ot_pc' = "batch" /\ report' = report
       ELSE /\ ot_pc' = "returned"
            /\ report' = [silent_skipped |-> Len(silent_files),
                          transcribed |-> completed, failed |-> failed,
                          written |-> TRUE]
    /\ UNCHANGED <<offTranscriber, file_ids, transcripts, files_to_process,
                   check_idx, probe_run, silent_files, audio_files,
                   unknown_files, audio_extracted, completed, failed,
                   extract_calls, transcribe_calls>>

NextTranscriber ==
    \/ OtStart
    \/ OtCheck
    \/ OtMarkSilent
    \/ OtExtractBatch
    \/ \E f \in FileIds : OtTranscribeOk(f) \/ OtTranscribeFailed(f)
    \/ OtBatchEnd

(***************************************************************************)
(* batch_orchestrator.py: BatchOrchestrator._op_generate_hashes            *)
(***************************************************************************)
\* the inputs whose outputs/<basename>/transcript.json the pattern of
\* target_files may match
HashDirs == 1..MaxHashed
\* the contents a transcript.json may have
Contents == 1..MaxContents
NoFile == 0

\* Path.stem of outputs/<basename>/transcript.json
Stem(d) == "transcript"
SidecarNames == {Stem(d) : d \in HashDirs}

\* hashlib.sha256(content).hexdigest(): different contents have different
\* digests
Sha256(content) == <<"sha256", content>>

RECURSIVE Orders(_)
\* the orders in which glob may list the files S
Orders(S) ==
    IF S = {} THEN {<<>>}
    ELSE UNION {{<<x>> \o o : o \in Orders(S \ {x})} : x \in S}

\* no generate_hashes operation runs
HashIdle ==
    /\ hpc = "off"
    /\ out_content = [d \in HashDirs |-> NoFile]
    /\ hash_files = [n \in SidecarNames |-> NoValue]
    /\ transcript_files = <<>>
    /\ hash_idx = 0
    /\ hashes_generated = <<>>

\* the disk when generate_hashes is called: some inputs have a
\* transcript.json, reports/hashes is empty
HashInit ==
    /\ hpc = "start"
    /\ out_content \in [HashDirs -> {NoFile} \cup Contents]
    /\ hash_files = [n \in SidecarNames |-> NoValue]
    /\ transcript_files = <<>>
    /\ hash_idx = 0
    /\ hashes_generated = <<>>

\* lines 474-480: the files matching the pattern, in the order of glob
OpHashGlob ==
    /\ hpc = "start"
    /\ transcript_files' \in Orders({d \in HashDirs : out_content[d] # NoFile})
    /\ hpc' = "loop"
    /\ UNCHANGED <<offOrchestrator, out_content, hash_files, hash_idx,
                   hashes_generated>>

\* Mutant of OpHashFile: the digest written is that of the first file of
\* the list.
OpHashFileFirst ==
    /\ hpc = "loop"
    /\ hash_idx < Len(transcript_files)
    /\ LET transcript_file == transcript_files[hash_idx + 1]
           file_hash == Sha256(out_content[transcript_files[1]])
       IN IF out_content[transcript_file] # NoFile
          THEN /\ hash_files' = [hash_files EXCEPT ![Stem(transcript_file)] =
                      Some([sha256 |-> file_hash, file |-> transcript_file])]
               /\ hashes_generated' = Append(hashes_generated,
                      [file |-> transcript_file, sha256 |-> file_hash,
                       hash_file |-> Stem(transcript_file)])
          ELSE UNCHANGED <<hash_files, hashes_generated>>
    /\ hash_idx' = hash_idx + 1
    /\ UNCHANGED <<offOrchestrator, hpc, out_content, transcript_files>>

\* lines 482-499, one iteration: the file is read and hashed, and the line
\* "<hex>  <relative path>" is written to hashes/<stem>.sha256
OpHashFile ==
    /\ hpc = "loop"
    /\ hash_idx < Len(transcript_files)
    /\ LET transcript_file == transcript_files[hash_idx + 1]
           file_hash == Sha256(out_content[transcript_file])
       IN IF out_content[transcript_file] # NoFile
          THEN /\ hash_files' = [hash_files EXCEPT ![Stem(transcript_file)] =
                      Some([sha256 |-> file_hash, file |-> transcript_file])]
               /\ hashes_generated' = Append(hashes_generated,
                      [file |-> transcript_file, sha256 |-> file_hash,
                       hash_file |-> Stem(transcript_file)])
          ELSE UNCHANGED <<hash_files, hashes_generated>>
    /\ hash_idx' = hash_idx + 1
    /\ UNCHANGED <<offOrchestrator, hpc, out_content, transcript_files>>

\* lines 501-505
OpHashReturn ==
    /\ hpc = "loop"
    /\ hash_idx = Len(transcript_files)
    /\ hpc' = "returned"
    /\ UNCHANGED <<offOrchestrator, out_content, hash_files,
                   transcript_files, hash_idx, hashes_generated>>

NextHashes ==
    \/ OpHashGlob
    \/ OpHashFile
    \/ OpHashReturn

(***************************************************************************)
(* batch_orchestrator.py: BatchOrchestrator._op_process_batch, and the     *)
(* body of GPUTranscriptionWorker.process_job step by step                 *)
(***************************************************************************)
FrontIds == 1..MaxFront

\* _op_process_batch, line 404, and the plan of line 229: export_formats
Formats == <<"json", "srt", "vtt", "csv">>
\* _export_formats, lines 347-353: the formats that have an exporter
Exported == {"srt", "vtt", "csv"}

\* the files outputs/<basename>/transcript.* of one input
NoArtifacts == [json |-> "absent", srt |-> "absent", vtt |-> "absent",
                csv |-> "absent"]
OldArtifacts == [json |-> "old", srt |-> "old", vtt |-> "old",
                 csv |-> "old"]

NewManifest == [jobs_total |-> 0, jobs_completed |-> 0, jobs_failed |-> 0]

\* no process_batch operation runs
OrchIdle ==
    /\ opc = "off"
    /\ skip_existing = FALSE
    /\ front_files = 0
    /\ existing = {}
    /\ manifest = NewManifest
    /\ artifacts = [i \in FrontIds |-> NoArtifacts]
    /\ save_pc = [i \in FrontIds |-> "none"]
    /\ export_idx = [i \in FrontIds |-> 0]
    /\ asr_runs = {}

\* the request and the disk when the process_batch operation begins: up to
\* MaxFront front files exist, some of which have the artifacts of an
\* earlier run
OrchInit ==
    /\ opc = "start"
    /\ skip_existing \in BOOLEAN
    /\ front_files \in 0..MaxFront
    /\ existing \in SUBSET (1..front_files)
    /\ manifest = NewManifest
    /\ artifacts = [i \in FrontIds |->
                       IF i \in existing THEN OldArtifacts ELSE NoArtifacts]
    /\ save_pc = [i \in FrontIds |-> "none"]
    /\ export_idx = [i \in FrontIds |-> 0]
    /\ asr_runs = {}

\* _op_process_batch, lines 401-412: every front file that exists is an
\* input
OpPrepare ==
    /\ opc = "start"
    /\ manifest' = [manifest EXCEPT !.jobs_total = front_files]
    /\ opc' = "call"
    /\ UNCHANGED <<offSave, skip_existing, front_files, existing, artifacts,
                   save_pc, export_idx, asr_runs>>

\* _op_process_batch, lines 428-432: gpu_pipeline.process_batch is called
OpCallPipeline ==
    /\ opc = "call"
    /\ calls = 0
    /\ BatchStart(manifest.jobs_total)

\* the jobs of the returned list with the status s
Returned(s) == {k \in 1..Len(ret) : jobs[ret[k]].status = s}

\* _op_process_batch, lines 435-458: the returned jobs are counted
OpCollect ==
    /\ opc = "call"
    /\ calls = 1
    /\ cpc = "returned"
    /\ manifest' = [manifest EXCEPT
          !.jobs_completed = @ + Cardinality(Returned("completed")),
          !.jobs_failed = @ + Cardinality(Returned("failed"))]
    /\ opc' = "stats"
    /\ UNCHANGED <<offSave, skip_existing, front_files, existing, artifacts,
                   save_pc, export_idx, asr_runs>>

\* _op_process_batch, line 461
OpStatistics ==
    /\ opc = "stats"
    /\ calls = 1
    /\ GetStatistics

\* _op_process_batch, lines 463-469
OpReturn ==
    /\ opc = "stats"
    /\ calls = 2
    /\ opc' = "returned"
    /\ UNCHANGED <<offSave, skip_existing, front_files, existing, manifest,
                   artifacts, save_pc, export_idx, asr_runs>>

\* process_job, lines 166-176: model.transcribe is run on the input;
\* diarization and confidence scores follow
SaveTranscribe(r) ==
    /\ rpc[r] = "pj_body"
    /\ save_pc[rjob[r]] = "none"
    /\ asr_runs' = asr_runs \cup {rjob[r]}
    /\ \E to \in {"transcribed", "raised"} :
          save_pc' = [save_pc EXCEPT ![rjob[r]] = to]
    /\ UNCHANGED <<offSave, opc, skip_existing, front_files, existing,
                   manifest, artifacts, export_idx>>

\* _save_results, lines 330-335: open(json_path, 'w') creates or truncates
\* transcript.json
SaveJsonOpen(r) ==
    /\ rpc[r] = "pj_body"
    /\ save_pc[rjob[r]] = "transcribed"
    /\ artifacts' = [artifacts EXCEPT ![rjob[r]].json = "partial"]
    /\ save_pc' = [save_pc EXCEPT ![rjob[r]] = "json_open"]
    /\ UNCHANGED <<offSave, opc, skip_existing, front_files, existing,
                   manifest, export_idx, asr_runs>>

\* _save_results, line 336: json.dump writes the whole result
SaveJsonDump(r) ==
    /\ rpc[r] = "pj_body"
    /\ save_pc[rjob[r]] = "json_open"
    /\ artifacts' = [artifacts EXCEPT ![rjob[r]].json = "new"]
    /\ save_pc' = [save_pc EXCEPT ![rjob[r]] = "export"]
    /\ UNCHANGED <<offSave, opc, skip_existing, front_files, existing,
                   manifest, export_idx, asr_runs>>

\* _save_results, line 336: a write of json.dump raises (OSError), the
\* file keeps what was written
SaveJsonDumpFail(r) ==
    /\ rpc[r] = "pj_body"
    /\ save_pc[rjob[r]] = "json_open"
    /\ save_pc' = [save_pc EXCEPT ![rjob[r]] = "raised"]
    /\ UNCHANGED <<offSave, opc, skip_existing, front_files, existing,
                   manifest, artifacts, export_idx, asr_runs>>

\* _export_formats, lines 347-353, one iteration: the exporter of the
\* format, if it has one, writes its file
SaveExport(r) ==
    /\ rpc[r] = "pj_body"
    /\ save_pc[rjob[r]] = "export"
    /\ export_idx[rjob[r]] < Len(Formats)
    /\ LET fmt == Formats[export_idx[rjob[r]] + 1]
       IN artifacts' = IF fmt \in Exported
                       THEN [artifacts EXCEPT ![rjob[r]][fmt] = "new"]
                       ELSE artifacts
    /\ export_idx' = [export_idx EXCEPT ![rjob[r]] = @ + 1]
    /\ UNCHANGED <<offSave, opc, skip_existing, front_files, existing,
                   manifest, save_pc, asr_runs>>

\* _export_srt, _export_vtt, _export_csv: open(path, 'w') creates or
\* truncates the file and a write raises (OSError)
SaveExportFail(r) ==
    /\ rpc[r] = "pj_body"
    /\ save_pc[rjob[r]] = "export"
    /\ export_idx[rjob[r]] < Len(Formats)
    /\ Formats[export_idx[rjob[r]] + 1] \in Exported
    /\ artifacts' = [artifacts EXCEPT
          ![rjob[r]][Formats[export_idx[rjob[r]] + 1]] = "partial"]
    /\ save_pc' = [save_pc EXCEPT ![rjob[r]] = "raised"]
    /\ UNCHANGED <<offSave, opc, skip_existing, front_files, existing,
                   manifest, export_idx, asr_runs>>

\* _save_results returns after the last format
SaveDone(r) ==
    /\ rpc[r] = "pj_body"
    /\ save_pc[rjob[r]] = "export"
    /\ export_idx[rjob[r]] = Len(Formats)
    /\ save_pc' = [save_pc EXCEPT ![rjob[r]] = "saved"]
    /\ UNCHANGED <<offSave, opc, skip_existing, front_files, existing,
                   manifest, artifacts, export_idx, asr_runs>>

\* process_job with the steps of its body
ProcessJobSaveStep(r) ==
    \/ PJBegin(r)
    \/ SaveTranscribe(r)
    \/ SaveJsonOpen(r)
    \/ SaveJsonDump(r)
    \/ SaveJsonDumpFail(r)
    \/ SaveExport(r)
    \/ SaveExportFail(r)
    \/ SaveDone(r)
    \/ rpc[r] = "pj_body" /\ save_pc[rjob[r]] = "saved" /\ PJBodyOk(r)
    \/ rpc[r] = "pj_body" /\ save_pc[rjob[r]] = "raised" /\ PJBodyFail(r)
    \/ PJCountOk(r)
    \/ PJCountFail(r)
    \/ PJFinally(r)
    \/ PJReturn(r)
    \/ PJCacheRaise(r)

NextOrchestrate ==
    \/ OpPrepare
    \/ OpCallPipeline
    \/ OpCollect
    \/ OpStatistics
    \/ OpReturn
    \/ BatchSubmit
    \/ BatchCollectResult
    \/ BatchCollectException
    \/ BatchReturn
    \/ \E r \in ExecThreads :
          \/ ExecTake(r)
          \/ ProcessJobSaveStep(r)
          \/ ExecSetResult(r)
          \/ ExecSetException(r)

(***************************************************************************)
(* batch_orchestrator.py: BatchOrchestrator.execute, _execute_plan,        *)
(* _op_scan_files, _verify_results and _generate_completion_report         *)
(***************************************************************************)
\* a path component, split after its first character
Part(h, t) == [head |-> h, tail |-> t]
\* str.startswith with a prefix of one character
StartsWith(part, c) == part.head = c

\* the video files a working directory may hold, as paths relative to it
TreePaths ==
    {<<Part("F", "001"), Part("a", ".mp4")>>,
     <<Part("F", "002"), Part("b", ".mp4")>>,
     <<Part("R", "001"), Part("c", ".mp4")>>,
     <<Part("X", "001"), Part("F", "ront"), Part("d", ".mp4")>>,
     <<Part("X", "001"), Part("e", ".mp4")>>}

\* the parts of the working directories, which Path.cwd() makes absolute
Cwds == {<<Part("/", ""), Part("d", "ata")>>,
         <<Part("/", ""), Part("R", "ecordings")>>}

\* the input patterns: the default of execute, and every video
Patterns == {"F*/*.mp4", "*.mp4"}

\* Path.rglob(pattern): the pattern is matched against the last components
\* of the path, at any depth
RglobMatch(pat, rel) ==
    IF pat = "F*/*.mp4"
    THEN /\ Len(rel) >= 2
         /\ StartsWith(rel[Len(rel) - 1], "F")
         /\ rel[Len(rel)].tail = ".mp4"
    ELSE rel[Len(rel)].tail = ".mp4"

RECURSIVE RoleOfParts(_)
\* _op_scan_files, lines 337-344: the first part that starts with 'F' or
\* with 'R' decides
RoleOfParts(parts) ==
    IF parts = <<>> THEN "other"
    ELSE IF StartsWith(Head(parts), "F") THEN "front"
    ELSE IF StartsWith(Head(parts), "R") THEN "rear"
    ELSE RoleOfParts(Tail(parts))

\* _generate_task_plan, lines 203-246: the operations of the plan
Plan == <<"run_hardware_detection", "scan_files", "initialize_pipeline",
          "process_batch", "generate_hashes", "save_manifest">>
Ops == {Plan[k] : k \in 1..Len(Plan)}

\* _generate_verifier_spec, lines 527-559
Checks ==
    <<[type |-> "file_exists", path |-> "hardware_optimization.json"],
      [type |-> "file_exists", path |-> "scan_summary.json"],
      [type |-> "file_exists", path |-> "batch_manifest.json"],
      [type |-> "jsonpath_exists", path |-> "hardware_optimization.json"],
      [type |-> "jsonpath_exists", path |-> "scan_summary.json"],
      [type |-> "glob_count_at_least", path |-> "outputs/*/transcript.json"]>>

\* _verify_results, lines 568-621: the 'pass' of one check; the reports
\* written by the operations of the plan hold the keys looked up
CheckPass(check) ==
    IF check.type = "glob_count_at_least" THEN has_transcripts
    ELSE check.path \in reports

\* Mutant of ObjectiveAchieved: the failed jobs are not looked at.
ObjectiveAchievedChecksOnly(results_, jobs_failed) ==
    \A k \in 1..Len(results_) : results_[k]

\* _generate_completion_report, lines 639, 652
ObjectiveAchieved(results_, jobs_failed) ==
    LET all_passed == \A k \in 1..Len(results_) : results_[k]
    IN all_passed /\ jobs_failed = 0

NoCompletion == [written |-> FALSE, objective_achieved |-> FALSE,
                 tasks_completed |-> 0, tasks_failed |-> 0]

\* no execute call runs
ExecIdle ==
    /\ epc = "off"
    /\ cwd_parts = <<>>
    /\ pattern = "F*/*.mp4"
    /\ tree = {}
    /\ scan_pc = "none"
    /\ all_files = <<>>
    /\ scan_idx = 0
    /\ scan_front = <<>>
    /\ scan_rear = <<>>
    /\ plan_idx = 0
    /\ results = [o \in Ops |-> "none"]
    /\ reports = {}
    /\ pipeline_state = "none"
    /\ has_transcripts = FALSE
    /\ verification_results = <<>>
    /\ completion = NoCompletion

\* __init__ and the call of execute: a working directory with up to
\* MaxScan video files and no report yet; outputs/ may hold the transcripts
\* of an earlier run
ExecInit ==
    /\ epc = "start"
    /\ cwd_parts \in Cwds
    /\ pattern \in Patterns
    /\ tree \in {t \in SUBSET TreePaths : Cardinality(t) <= MaxScan}
    /\ scan_pc = "none"
    /\ all_files = <<>>
    /\ scan_idx = 0
    /\ scan_front = <<>>
    /\ scan_rear = <<>>
    /\ plan_idx = 0
    /\ results = [o \in Ops |-> "none"]
    /\ reports = {}
    /\ pipeline_state = "none"
    /\ has_transcripts \in BOOLEAN
    /\ verification_results = <<>>
    /\ completion = NoCompletion

\* the operation the loop of _execute_plan is at
AtOp(op) ==
    /\ epc = "plan"
    /\ plan_idx < Len(Plan)
    /\ Plan[plan_idx + 1] = op

\* _execute_plan, lines 251-258: the manifest is created
ExecStart ==
    /\ epc = "start"
    /\ manifest' = NewManifest
    /\ epc' = "plan"
    /\ UNCHANGED <<offExecute, cwd_parts, pattern, tree, scan_pc, all_files,
                   scan_idx, scan_front, scan_rear, plan_idx, results,
                   reports, pipeline_state, has_transcripts,
                   verification_results, completion>>

\* _op_hardware_detection, lines 297-321: the report is written by
\* save_hardware_report and again after the benchmarks; lines 286-289: an
\* exception of the operation is logged and the plan goes on
OpHardwareDetection ==
    /\ AtOp("run_hardware_detection")
    /\ \E outcome \in {"success", "error"} :
          /\ results' = [results EXCEPT !["run_hardware_detection"] = outcome]
          /\ \/ reports' = reports \cup {"hardware_optimization.json"}
             \/ outcome = "error" /\ reports' = reports
    /\ plan_idx' = plan_idx + 1
    /\ UNCHANGED <<offExecute, manifest, epc, cwd_parts, pattern, tree,
                   scan_pc, all_files, scan_idx, scan_front, scan_rear,
                   pipeline_state, has_transcripts, verification_results,
                   completion>>

\* _op_scan_files, lines 326-334: the files matching the pattern, in the
\* order of rglob
OpScanGlob ==
    /\ AtOp("scan_files")
    /\ scan_pc = "none"
    /\ all_files' \in Orders({f \in tree : RglobMatch(pattern, f)})
    /\ scan_pc' = "loop"
    /\ UNCHANGED <<offExecute, manifest, epc, cwd_parts, pattern, tree,
                   scan_idx, scan_front, scan_rear, plan_idx, results,
                   reports, pipeline_state, has_transcripts,
                   verification_results, completion>>

\* _op_scan_files, lines 336-344, one iteration: rglob yields the path with
\* the working directory in front, and all its parts are looked at
OpScanFile ==
    /\ AtOp("scan_files")
    /\ scan_pc = "loop"
    /\ scan_idx < Len(all_files)
    /\ LET rel == all_files[scan_idx + 1]
           role == RoleOfParts(cwd_parts \o rel)
       IN /\ scan_front' = IF role = "front" THEN Append(scan_front, rel)
                           ELSE scan_front
          /\ scan_rear' = IF role = "rear" THEN Append(scan_rear, rel)
                          ELSE scan_rear
    /\ scan_idx' = scan_idx + 1
    /\ UNCHANGED <<offExecute, manifest, epc, cwd_parts, pattern, tree,
                   scan_pc, all_files, plan_idx, results, reports,
                   pipeline_state, has_transcripts, verification_results,
                   completion>>

\* _op_scan_files, lines 346-371: the summary is written and the lists are
\* kept in the manifest
OpScanReturn ==
    /\ AtOp("scan_files")
    /\ scan_pc = "loop"
    /\ scan_idx = Len(all_files)
    /\ scan_pc' = "returned"
    /\ reports' = reports \cup {"scan_summary.json"}
    /\ results' = [results EXCEPT !["scan_files"] = "success"]
    /\ plan_idx' = plan_idx + 1
    /\ UNCHANGED <<offExecute, manifest, epc, cwd_parts, pattern, tree,
                   all_files, scan_idx, scan_front, scan_rear,
                   pipeline_state, has_transcripts, verification_results,
                   completion>>

\* _op_initialize_pipeline, lines 373-396: the pipeline is constructed and
\* initialized; the constructor or initialize() may raise
OpInitializePipeline ==
    /\ AtOp("initialize_pipeline")
    /\ \E to \in {"none", "constructed", "initialized"} :
          /\ pipeline_state' = to
          /\ results' = [results EXCEPT !["initialize_pipeline"] =
                IF to = "initialized" THEN "success" ELSE "error"]
    /\ plan_idx' = plan_idx + 1
    /\ UNCHANGED <<offExecute, manifest, epc, cwd_parts, pattern, tree,
                   scan_pc, all_files, scan_idx, scan_front, scan_rear,
                   reports, has_transcripts, verification_results,
                   completion>>

\* _op_process_batch, lines 398-469, as one step: without a pipeline it
\* raises; else every front file is a job that ends 'completed' or
\* 'failed', or process_batch raises; a completed job writes its
\* transcript.json, and the transcripts there were stay
OpProcessBatch ==
    /\ AtOp("process_batch")
    /\ \/ /\ pipeline_state # "none"
          /\ \E f \in 0..Len(scan_front) :
                /\ manifest' = [jobs_total |-> Len(scan_front),
                                jobs_completed |-> Len(scan_front) - f,
                                jobs_failed |-> f]
                /\ has_transcripts' =
                      (has_transcripts \/ f < Len(scan_front))
          /\ results' = [results EXCEPT !["process_batch"] = "success"]
       \/ /\ results' = [results EXCEPT !["process_batch"] = "error"]
          /\ manifest' = IF pipeline_state = "none" THEN manifest
                         ELSE [manifest EXCEPT
                                  !.jobs_total = Len(scan_front)]
          /\ UNCHANGED has_transcripts
    /\ plan_idx' = plan_idx + 1
    /\ UNCHANGED <<offExecute, epc, cwd_parts, pattern, tree, scan_pc,
                   all_files, scan_idx, scan_front, scan_rear, reports,
                   pipeline_state, verification_results, completion>>

\* _op_generate_hashes, lines 471-505, as one step
OpGenerateHashes ==
    /\ AtOp("generate_hashes")
    /\ results' = [results EXCEPT !["generate_hashes"] = "success"]
    /\ plan_idx' = plan_idx + 1
    /\ UNCHANGED <<offExecute, manifest, epc, cwd_parts, pattern, tree,
                   scan_pc, all_files, scan_idx, scan_front, scan_rear,
                   reports, pipeline_state, has_transcripts,
                   verification_results, completion>>

\* _op_save_manifest, lines 507-523; the write may raise
OpSaveManifest ==
    /\ AtOp("save_manifest")
    /\ \/ /\ results' = [results EXCEPT !["save_manifest"] = "success"]
          /\ reports' = reports \cup {"batch_manifest.json"}
       \/ /\ results' = [results EXCEPT !["save_manifest"] = "error"]
          /\ reports' = reports
    /\ plan_idx' = plan_idx + 1
    /\ UNCHANGED <<offExecute, manifest, epc, cwd_parts, pattern, tree,
                   scan_pc, all_files, scan_idx, scan_front, scan_rear,
                   pipeline_state, has_transcripts, verification_results,
                   completion>>

\* _execute_plan, lines 291-294, and _verify_results, lines 561-633
ExecVerify ==
    /\ epc = "plan"
    /\ plan_idx = Len(Plan)
    /\ verification_results' = [k \in 1..Len(Checks) |-> CheckPass(Checks[k])]
    /\ epc' = "report"
    /\ UNCHANGED <<offExecute, manifest, cwd_parts, pattern, tree, scan_pc,
                   all_files, scan_idx, scan_front, scan_rear, plan_idx,
                   results, reports, pipeline_state, has_transcripts,
                   completion>>

\* _generate_completion_report, lines 635-666
ExecReport ==
    /\ epc = "report"
    /\ completion' =
          [written |-> TRUE,
           objective_achieved |->
               ObjectiveAchieved(verification_results, manifest.jobs_failed),
           tasks_completed |->
               Cardinality({o \in Ops : results[o] = "success"}),
           tasks_failed |->
               Cardinality({o \in Ops : results[o] = "error"})]
    /\ epc' = "done"
    /\ UNCHANGED <<offExecute, manifest, cwd_parts, pattern, tree, scan_pc,
                   all_files, scan_idx, scan_front, scan_rear, plan_idx,
                   results, reports, pipeline_state, has_transcripts,
                   verification_results>>

NextExecute ==
    \/ ExecStart
    \/ OpHardwareDetection
    \/ OpScanGlob
    \/ OpScanFile
    \/ OpScanReturn
    \/ OpInitializePipeline
    \/ OpProcessBatch
    \/ OpGenerateHashes
    \/ OpSaveManifest
    \/ ExecVerify
    \/ ExecReport

(***************************************************************************)
(* exporters.py: BaseExporter._merge_segments and SRTExporter.export;      *)
(* gpu_pipeline.py: GPUTranscriptionWorker._export_srt.  Times are in      *)
(* tenths of a second.                                                     *)
(***************************************************************************)
\* BaseExporter.__init__, line 24: export.merge_threshold_s, 0.5 s
merge_threshold == 5

\* the (start, end) of the segments drawn: gaps below, at and above the
\* threshold, empty segments and one that ends before it starts
Spans == {<<0, 0>>, <<0, merge_threshold>>,
          <<merge_threshold, 2 * merge_threshold + 1>>,
          <<2 * merge_threshold + 1, 2 * merge_threshold + 1>>,
          <<2 * merge_threshold + 1, 0>>}
Speakers == {"SPK_00", "SPK_01"}
\* the text of the k-th segment drawn, as its list of words
Words == <<"one", "two", "three", "four", "five", "six">>

\* a segment; pipeline.py, lines 351-356, copies the label 'speaker' to
\* 'speaker_name'
Segment(start, end, text, speaker) ==
    [start |-> start, end |-> end, text |-> text, speaker |-> speaker,
     speaker_name |-> speaker]

RECURSIVE SegmentLists(_)
\* the segment lists of length n: any labels, starts and ends
SegmentLists(n) ==
    IF n = 0 THEN {<<>>}
    ELSE {Append(l, Segment(t[1], t[2], <<Words[n]>>, sp)) :
             l \in SegmentLists(n - 1), t \in Spans, sp \in Speakers}

\* the segments (0.0,1.5,hi,SPK_00), (1.6,3.0,there,SPK_00),
\* (3.5,4.0,yo,SPK_01)
ExampleSegments ==
    <<Segment(0, 15, <<"hi">>, "SPK_00"),
      Segment(16, 30, <<"there">>, "SPK_00"),
      Segment(35, 40, <<"yo">>, "SPK_01")>>

RECURSIVE MergeStaleFrom(_, _, _, _)
\* Mutant of MergeSegments: the gap is measured from the end of the first
\* segment of the run.
MergeStaleFrom(segs, merged_, current, first_end) ==
    IF segs = <<>>
    THEN IF current = NoValue THEN merged_ ELSE Append(merged_, current[1])
    ELSE LET segment == Head(segs)
         IN IF current = NoValue
            THEN MergeStaleFrom(Tail(segs), merged_, Some(segment),
                                segment.end)
            ELSE IF /\ segment.speaker_name = current[1].speaker_name
                    /\ segment.start - first_end <= merge_threshold
            THEN MergeStaleFrom(Tail(segs), merged_,
                     Some([current[1] EXCEPT
                              !.end = segment.end,
                              !.text = @ \o segment.text]), first_end)
            ELSE MergeStaleFrom(Tail(segs), Append(merged_, current[1]),
                                Some(segment), segment.end)

MergeSegmentsStale(segs) ==
    IF segs = <<>> THEN segs ELSE MergeStaleFrom(segs, <<>>, NoValue, 0)

RECURSIVE MergeFrom(_, _, _)
\* _merge_segments, lines 86-106: the loop over the segments left, with the
\* locals merged and current
MergeFrom(segs, merged_, current) ==
    IF segs = <<>>
    THEN IF current = NoValue THEN merged_ ELSE Append(merged_, current[1])
    ELSE LET segment == Head(segs)
         IN IF current = NoValue
            THEN MergeFrom(Tail(segs), merged_, Some(segment))
            ELSE IF /\ segment.speaker_name = current[1].speaker_name
                    /\ segment.start - current[1].end <= merge_threshold
            THEN MergeFrom(Tail(segs), merged_,
                     Some([current[1] EXCEPT
                              !.end = segment.end,
                              !.text = @ \o segment.text]))
            ELSE MergeFrom(Tail(segs), Append(merged_, current[1]),
                           Some(segment))

\* _merge_segments, lines 81-108, with merge_consecutive_segments at its
\* default True; joining two texts with ' ' joins their lists of words
MergeSegments(segs) ==
    IF segs = <<>> THEN segs ELSE MergeFrom(segs, <<>>, NoValue)

\* _format_timestamp (exporters.py, lines 39-54; gpu_pipeline.py, lines
\* 397-408): HH:MM:SS,mmm for 'srt'
FormatTimestamp(t, format_type) ==
    [hours |-> t \div 36000,
     minutes |-> (t % 36000) \div 600,
     secs |-> (t % 600) \div 10,
     millis |-> (t % 10) * 100,
     sep |-> IF format_type = "srt" THEN "," ELSE "."]

\* SRTExporter.export, lines 119-137: the cues written for merged segments;
\* the speaker is written as "<name>: " in front of the text
SrtCues(segs) ==
    [i \in 1..Len(segs) |->
        [index |-> i,
         start_time |-> FormatTimestamp(segs[i].start, "srt"),
         end_time |-> FormatTimestamp(segs[i].end, "srt"),
         label |-> IF segs[i].speaker_name \notin {"", "UNKNOWN"}
                   THEN <<segs[i].speaker_name, ": ">> ELSE <<>>,
         text |-> segs[i].text]]

\* _export_srt, gpu_pipeline.py, lines 355-365: one cue per segment of
\* result['segments']; the speaker is written as "[<label>] "
GpuSrtCues(segs) ==
    [i \in 1..Len(segs) |->
        [index |-> i,
         start_time |-> FormatTimestamp(segs[i].start, "srt"),
         end_time |-> FormatTimestamp(segs[i].end, "srt"),
         label |-> IF segs[i].speaker # ""
                   THEN <<"[", segs[i].speaker, "] ">> ELSE <<>>,
         text |-> segs[i].text]]

\* no exporter runs
ExportIdle ==
    /\ xpc = "off"
    /\ x_segments = <<>>
    /\ merged = <<>>
    /\ remerged = <<>>
    /\ srt_cues = <<>>
    /\ gpu_srt_cues = <<>>

\* a transcript of up to MaxSegs segments is to be exported
ExportInit ==
    /\ xpc = "start"
    /\ x_segments \in
          UNION {SegmentLists(n) : n \in 0..MaxSegs} \cup {ExampleSegments}
    /\ merged = <<>>
    /\ remerged = <<>>
    /\ srt_cues = <<>>
    /\ gpu_srt_cues = <<>>

\* _merge_segments(segments)
XMerge ==
    /\ xpc = "start"
    /\ merged' = MergeSegments(x_segments)
    /\ xpc' = "merged"
    /\ UNCHANGED <<offExport, x_segments, remerged, srt_cues, gpu_srt_cues>>

\* _merge_segments on the list it returned
XMergeAgain ==
    /\ xpc = "merged"
    /\ remerged' = MergeSegments(merged)
    /\ xpc' = "remerged"
    /\ UNCHANGED <<offExport, x_segments, merged, srt_cues, gpu_srt_cues>>

\* SRTExporter.export, lines 114-146
XExportSrt ==
    /\ xpc = "remerged"
    /\ srt_cues' = SrtCues(MergeSegments(x_segments))
    /\ xpc' = "srt"
    /\ UNCHANGED <<offExport, x_segments, merged, remerged, gpu_srt_cues>>

\* GPUTranscriptionWorker._export_srt, lines 355-365
XGpuExportSrt ==
    /\ xpc = "srt"
    /\ gpu_srt_cues' = GpuSrtCues(x_segments)
    /\ xpc' = "exported"
    /\ UNCHANGED <<offExport, x_segments, merged, remerged, srt_cues>>

NextExport ==
    \/ XMerge
    \/ XMergeAgain
    \/ XExportSrt
    \/ XGpuExportSrt

(***************************************************************************)
(* gpu_pipeline.py: GPUTranscriptionWorker._transcribe_audio;              *)
(* pipeline.py: TranscriptionPipeline._process_chunked_audio and           *)
(* _merge_chunk_results.  Times are in seconds.                            *)
(***************************************************************************)
\* what the ASR model yields for one audio file: the starts of its
\* segments, which the decoder emits in the order of the audio
AsrOutputs == {<<>>, <<0>>, <<0, 3>>, <<1, 1>>, <<0, 1, 3>>}

\* chunk_info['start'] of the chunks of chunk_audio
ChunkStarts == {0, 2, 4}

RECURSIVE ChunkLists(_)
\* the lists of n chunks with what the ASR model yields for each
ChunkLists(n) ==
    IF n = 0 THEN {<<>>}
    ELSE {Append(l, [start |-> s, asr |-> a]) :
             l \in ChunkLists(n - 1), s \in ChunkStarts, a \in AsrOutputs}

\* _transcribe_audio, lines 238-260: the segments in the order collected
SegmentList(asr) ==
    [i \in 1..Len(asr) |-> [id |-> i - 1, start |-> asr[i]]]

\* _process_chunked_audio, lines 248-262: the transcription of chunk i with
\* chunk_start added to every timestamp
ChunkResult(chunk, i) ==
    [transcription |->
        [k \in 1..Len(chunk.asr) |->
            [id |-> k - 1, chunk_index |-> i,
             start |-> chunk.asr[k] + chunk.start]],
     chunk_start |-> chunk.start,
     chunk_index |-> i]

RECURSIVE Extended(_)
\* _merge_chunk_results, lines 302-307: all_segments.extend per chunk
Extended(results_) ==
    IF results_ = <<>> THEN <<>>
    ELSE Head(results_).transcription \o Extended(Tail(results_))

\* list.sort(key=...) places x: after every element whose key is not
\* greater (the sort is stable)
InsertByStart(sorted_, x) ==
    LET n == Cardinality({k \in 1..Len(sorted_) :
                             sorted_[k].start <= x.start})
    IN SubSeq(sorted_, 1, n) \o <<x>> \o SubSeq(sorted_, n + 1, Len(sorted_))

RECURSIVE SortByStart(_)
\* _merge_chunk_results, line 310: all_segments.sort(key=start)
SortByStart(list) ==
    IF list = <<>> THEN <<>>
    ELSE InsertByStart(SortByStart(SubSeq(list, 1, Len(list) - 1)),
                       list[Len(list)])

\* Mutant of MergeChunkResults: the segments are not sorted.
MergeChunkResultsUnsorted(results_) == Extended(results_)

\* _merge_chunk_results, lines 297-320: the 'segments' of the merged result
MergeChunkResults(results_) == SortByStart(Extended(results_))

\* no transcription is collected
CollectIdle ==
    /\ mpc = "off"
    /\ asr_segments = <<>>
    /\ segment_list = <<>>
    /\ chunks = <<>>
    /\ chunk_i = 0
    /\ chunk_results = <<>>
    /\ all_segments = <<>>

\* one audio file is transcribed by the GPU worker, or a long audio file
\* has been cut into up to MaxChunks chunks
CollectInit ==
    /\ \/ /\ mpc = "gpu"
          /\ asr_segments \in AsrOutputs
          /\ chunks = <<>>
       \/ /\ mpc = "chunks"
          /\ asr_segments = <<>>
          /\ chunks \in UNION {ChunkLists(n) : n \in 1..MaxChunks}
    /\ segment_list = <<>>
    /\ chunk_i = 0
    /\ chunk_results = <<>>
    /\ all_segments = <<>>

\* _transcribe_audio, lines 231-267
TranscribeAudio ==
    /\ mpc = "gpu"
    /\ segment_list' = SegmentList(asr_segments)
    /\ mpc' = "emitted_gpu"
    /\ UNCHANGED <<offCollect, asr_segments, chunks, chunk_i, chunk_results,
                   all_segments>>

\* _process_chunked_audio, lines 238-267, one iteration
ProcessChunk ==
    /\ mpc = "chunks"
    /\ chunk_i < Len(chunks)
    /\ chunk_results' =
          Append(chunk_results, ChunkResult(chunks[chunk_i + 1], chunk_i))
    /\ chunk_i' = chunk_i + 1
    /\ UNCHANGED <<offCollect, mpc, asr_segments, segment_list, chunks,
                   all_segments>>

\* _process_chunked_audio, line 271: _merge_chunk_results(chunk_results)
MergeChunks ==
    /\ mpc = "chunks"
    /\ chunk_i = Len(chunks)
    /\ all_segments' = MergeChunkResults(chunk_results)
    /\ mpc' = "emitted_chunks"
    /\ UNCHANGED <<offCollect, asr_segments, segment_list, chunks, chunk_i,
                   chunk_results>>

NextCollect ==
    \/ TranscribeAudio
    \/ ProcessChunk
    \/ MergeChunks

(***************************************************************************)
(* audio_extractor.py: AudioExtractor.split_long_audio.  Times are in      *)
(* seconds.                                                                *)
(***************************************************************************)
\* min(a, b)
Min(a, b) == IF a < b THEN a ELSE b

\* no audio is split
SplitIdle ==
    /\ kpc = "off"
    /\ duration = 0
    /\ max_duration = 1
    /\ overlap = 0
    /\ start_time = 0
    /\ chunk_idx = 0
    /\ split_chunks = <<>>

\* split_long_audio is called on an audio of up to MaxDuration seconds
\* with 0 <= overlap < max_duration
SplitInit ==
    /\ kpc = "probe"
    /\ duration \in 0..MaxDuration
    /\ max_duration \in 1..MaxChunkLen
    /\ overlap \in 0..(max_duration - 1)
    /\ start_time = 0
    /\ chunk_idx = 0
    /\ split_chunks = <<>>

\* split_long_audio is called with any overlap >= 0, also one that is not
\* below max_duration
SplitInitAny ==
    /\ kpc = "probe"
    /\ duration \in 0..MaxDuration
    /\ max_duration \in 1..MaxChunkLen
    /\ overlap \in 0..MaxOverlap
    /\ start_time = 0
    /\ chunk_idx = 0
    /\ split_chunks = <<>>

\* lines 240-243: probe_file found nothing, [] is returned
SplitNoProbe ==
    /\ kpc = "probe"
    /\ kpc' = "no_probe"
    /\ UNCHANGED <<offSplit, duration, max_duration, overlap, start_time,
                   chunk_idx, split_chunks>>

\* lines 245-247: the audio is not longer than max_duration and is its own
\* single chunk
SplitShort ==
    /\ kpc = "probe"
    /\ duration <= max_duration
    /\ split_chunks' = <<[start_time |-> 0, end_time |-> duration,
                         chunk_idx |-> -1]>>
    /\ kpc' = "returned"
    /\ UNCHANGED <<offSplit, duration, max_duration, overlap, start_time,
                   chunk_idx>>

\* lines 249-255: the loop is entered
SplitBegin ==
    /\ kpc = "probe"
    /\ duration > max_duration
    /\ kpc' = "loop"
    /\ UNCHANGED <<offSplit, duration, max_duration, overlap, start_time,
                   chunk_idx, split_chunks>>

\* line 272: where the next chunk starts
NextStart(end_time) ==
    IF end_time < duration THEN end_time - overlap ELSE duration

\* lines 257-273, one iteration: the chunk is extracted, and kept if
\* extract_audio reports success
SplitChunk ==
    /\ kpc = "loop"
    /\ start_time < duration
    /\ chunk_idx < MaxSplit
    /\ LET end_time == Min(start_time + max_duration, duration)
       IN /\ \E success \in BOOLEAN :
                split_chunks' =
                   IF success
                   THEN Append(split_chunks,
                               [start_time |-> start_time,
                                end_time |-> end_time,
                                chunk_idx |-> chunk_idx])
                   ELSE split_chunks
          /\ start_time' = NextStart(end_time)
    /\ chunk_idx' = chunk_idx + 1
    /\ UNCHANGED <<offSplit, kpc, duration, max_duration, overlap>>

\* line 275: the loop is left, chunks is returned
SplitReturn ==
    /\ kpc = "loop"
    /\ start_time >= duration
    /\ kpc' = "returned"
    /\ UNCHANGED <<offSplit, duration, max_duration, overlap, start_time,
                   chunk_idx, split_chunks>>

NextSplit ==
    \/ SplitNoProbe
    \/ SplitShort
    \/ SplitBegin
    \/ SplitChunk
    \/ SplitReturn

(***************************************************************************)
(* hardware_optimizer.py: HardwareOptimizer.__init__, that is              *)
(* detect_hardware and calculate_optimization_profile.  Memory sizes are   *)
(* in GB.                                                                  *)
(***************************************************************************)
\* the GPUs a machine can hold: total and free video memory
GpuKinds ==
    {[vram_total_gb |-> p[1], vram_free_gb |-> p[2]] :
        p \in {<<2, 1>>, <<4, 2>>, <<6, 4>>, <<8, 6>>, <<12, 12>>,
               <<24, 10>>}}

\* the GPU inventories of up to MaxGpus devices
Inventories == UNION {[1..n -> GpuKinds] : n \in 0..MaxGpus}

\* psutil.cpu_count(logical=False)
CoreCounts == {2, 4, 8, 16}

\* psutil.virtual_memory(): total and available
Memories ==
    {[ram_total_gb |-> p[1], ram_available_gb |-> p[2]] :
        p \in {<<8, 4>>, <<16, 8>>, <<32, 16>>, <<64, 32>>}}

\* the machines: an inventory, whether torch.cuda.is_available(), whether
\* nvidia-smi runs, the cores and the memory
Machines ==
    {m \in [gpus : Inventories, cuda : BOOLEAN, smi : BOOLEAN,
            cpu_cores : CoreCounts, memory : Memories] :
        (m.cuda \/ m.smi) => m.gpus # <<>>}

\* lines 127-135: gpu_info before detection
NoGpuInfo ==
    [gpu_available |-> FALSE, gpu_count |-> 0,
     gpu_vram_total_gb |-> <<>>, gpu_vram_available_gb |-> <<>>]

\* lines 203-210: the default recommendations
DefaultRecommendations ==
    [recommended_batch_size |-> 1, recommended_model |-> "base",
     recommended_device |-> "cpu", recommended_workers |-> 1,
     recommended_fp16 |-> FALSE, max_parallel_files |-> 1]

\* no optimization profile yet
NoProfile == <<>>

\* min(list), max(list) of a non-empty list
RECURSIVE MinOf(_)
MinOf(s) ==
    IF Len(s) = 1 THEN s[1] ELSE Min(s[1], MinOf(Tail(s)))

RECURSIVE MaxOf(_)
MaxOf(s) ==
    IF Len(s) = 1 THEN s[1]
    ELSE LET r == MaxOf(Tail(s)) IN IF s[1] > r THEN s[1] ELSE r

\* no hardware is detected
DetectIdle ==
    /\ dpc = "off"
    /\ machine = [gpus |-> <<>>, cuda |-> FALSE, smi |-> FALSE,
                  cpu_cores |-> 2,
                  memory |-> [ram_total_gb |-> 8, ram_available_gb |-> 4]]
    /\ gpu_info = NoGpuInfo
    /\ recommendations = DefaultRecommendations
    /\ optimization_profile = NoProfile

\* HardwareOptimizer() is constructed on some machine
DetectInit ==
    /\ dpc = "detect_cuda"
    /\ machine \in Machines
    /\ gpu_info = NoGpuInfo
    /\ recommendations = DefaultRecommendations
    /\ optimization_profile = NoProfile

\* lines 137-162: the CUDA query records every device
DetectGpuCuda ==
    /\ dpc = "detect_cuda"
    /\ gpu_info' =
          IF machine.cuda
          THEN [gpu_available |-> TRUE,
                gpu_count |-> Len(machine.gpus),
                gpu_vram_total_gb |->
                   [i \in 1..Len(machine.gpus) |->
                       machine.gpus[i].vram_total_gb],
                gpu_vram_available_gb |->
                   [i \in 1..Len(machine.gpus) |->
                       machine.gpus[i].vram_free_gb]]
          ELSE gpu_info
    /\ dpc' = "detect_smi"
    /\ UNCHANGED <<offDetect, machine, recommendations,
                   optimization_profile>>

\* lines 164-188: nvidia-smi prints one line per device; gpu_count is the
\* number of lines, and a line is recorded only while the lists are empty
DetectGpuSmi ==
    /\ dpc = "detect_smi"
    /\ gpu_info' =
          IF machine.smi /\ ~gpu_info.gpu_available
          THEN [gpu_available |-> TRUE,
                gpu_count |-> Len(machine.gpus),
                gpu_vram_total_gb |-> <<machine.gpus[1].vram_total_gb>>,
                gpu_vram_available_gb |-> <<machine.gpus[1].vram_free_gb>>]
          ELSE gpu_info
    /\ dpc' = "recommend"
    /\ UNCHANGED <<offDetect, machine, recommendations,
                   optimization_profile>>

\* lines 218-235: the model and the batch size of a GPU of min_vram GB
GpuModel(min_vram) ==
    IF min_vram >= 10 THEN <<"large-v3", 16>>
    ELSE IF min_vram >= 6 THEN <<"large-v2", 8>>
    ELSE IF min_vram >= 4 THEN <<"medium", 4>>
    ELSE IF min_vram >= 2 THEN <<"small", 2>>
    ELSE <<"base", 1>>

\* lines 201-261: _calculate_recommendations
CalculatedRecommendations ==
    LET cuda == gpu_info.gpu_available /\ gpu_info.gpu_count > 0
        min_vram == IF gpu_info.gpu_vram_available_gb # <<>>
                    THEN MinOf(gpu_info.gpu_vram_available_gb) ELSE 0
        ram == machine.memory.ram_available_gb
        cores == machine.cpu_cores
    IN [recommended_device |-> IF cuda THEN "cuda" ELSE "cpu",
        recommended_fp16 |-> cuda,
        recommended_model |->
           IF cuda THEN GpuModel(min_vram)[1]
           ELSE IF ram >= 16 THEN "medium"
           ELSE IF ram >= 8 THEN "small" ELSE "base",
        recommended_batch_size |-> IF cuda THEN GpuModel(min_vram)[2] ELSE 1,
        recommended_workers |-> Min(cores, 8),
        max_parallel_files |->
           IF cuda
           THEN (IF gpu_info.gpu_count > 1
                 THEN Min(gpu_info.gpu_count, 4) ELSE 1)
           ELSE IF ram >= 32 /\ cores >= 8 THEN 4
           ELSE IF ram >= 16 /\ cores >= 4 THEN 2 ELSE 1]

\* lines 78-81 of detect_hardware
CalculateRecommendations ==
    /\ dpc = "recommend"
    /\ recommendations' = CalculatedRecommendations
    /\ dpc' = "profile"
    /\ UNCHANGED <<offDetect, machine, gpu_info, optimization_profile>>

\* Mutant of TierScore: of the GPUs only the presence of one is scored.
TierScoreOneGpu ==
    (IF gpu_info.gpu_available THEN 30 ELSE 0)
    + (IF machine.cpu_cores >= 16 THEN 15
       ELSE IF machine.cpu_cores >= 8 THEN 10
       ELSE IF machine.cpu_cores >= 4 THEN 5 ELSE 0)
    + (IF machine.memory.ram_total_gb >= 64 THEN 15
       ELSE IF machine.memory.ram_total_gb >= 32 THEN 10
       ELSE IF machine.memory.ram_total_gb >= 16 THEN 5 ELSE 0)

\* lines 279-305: score of _determine_tier
TierScore ==
    (IF gpu_info.gpu_available
     THEN 30
          + (IF gpu_info.gpu_count > 1 THEN 20 ELSE 0)
          + (IF gpu_info.gpu_vram_total_gb # <<>>
                /\ MaxOf(gpu_info.gpu_vram_total_gb) >= 24 THEN 20
             ELSE IF gpu_info.gpu_vram_total_gb # <<>>
                     /\ MaxOf(gpu_info.gpu_vram_total_gb) >= 12 THEN 10
             ELSE 0)
     ELSE 0)
    + (IF machine.cpu_cores >= 16 THEN 15
       ELSE IF machine.cpu_cores >= 8 THEN 10
       ELSE IF machine.cpu_cores >= 4 THEN 5 ELSE 0)
    + (IF machine.memory.ram_total_gb >= 64 THEN 15
       ELSE IF machine.memory.ram_total_gb >= 32 THEN 10
       ELSE IF machine.memory.ram_total_gb >= 16 THEN 5 ELSE 0)

\* lines 276-314: _determine_tier
DetermineTier ==
    IF TierScore >= 70 THEN "ultra"
    ELSE IF TierScore >= 45 THEN "high"
    ELSE IF TierScore >= 25 THEN "medium"
    ELSE "low"

\* lines 316-343: _optimize_transcription
OptimizeTranscription ==
    LET tier == DetermineTier
        batch == recommendations.recommended_batch_size
    IN [model |-> recommendations.recommended_model,
        device |-> recommendations.recommended_device,
        batch_size |->
           IF tier = "ultra" THEN Min(32, batch * 2)
           ELSE IF tier = "low" THEN 1 ELSE batch,
        beam_size |->
           IF tier = "ultra" THEN 10
           ELSE IF tier = "high" THEN 7
           ELSE IF tier = "low" THEN 3 ELSE 5,
        best_of |->
           IF tier = "ultra" THEN 10
           ELSE IF tier = "high" THEN 7
           ELSE IF tier = "low" THEN 3 ELSE 5]

\* lines 362-379: _optimize_parallel
OptimizeParallel ==
    [max_concurrent_files |-> recommendations.max_parallel_files,
     max_concurrent_gpus |-> gpu_info.gpu_count]

\* lines 263-274: calculate_optimization_profile
CalculateOptimizationProfile ==
    /\ dpc = "profile"
    /\ optimization_profile' =
          <<[hardware_tier |-> DetermineTier,
             transcription |-> OptimizeTranscription,
             parallel_processing |-> OptimizeParallel]>>
    /\ dpc' = "done"
    /\ UNCHANGED <<offDetect, machine, gpu_info, recommendations>>

NextDetect ==
    \/ DetectGpuCuda
    \/ DetectGpuSmi
    \/ CalculateRecommendations
    \/ CalculateOptimizationProfile

(***************************************************************************)
(* gpu_pipeline.py: ParallelGPUPipeline.initialize, called by the user or  *)
(* by process_batch and process_stream.                                    *)
(***************************************************************************)
\* what the pipeline variables outside initialize() keep
initFrame ==
    <<shutdown_flag, queueVars, jobs, execVars, runVars, input_files,
      futures, completed_jobs, ret, statistics, spc>>

\* initialize() is called: by the user, line 436, or by a process_batch or
\* process_stream that finds no executor, lines 461-462 and 503-504
InitializeCall ==
    /\ CallerReady
    /\ calls < MaxInitCalls
    /\ \E caller \in {"initialize", "process_batch", "process_stream"} :
          caller = "initialize" \/ executor = "none"
    /\ calls' = calls + 1
    /\ idx' = 0
    /\ IF gpu_count = 0
       THEN cpc' = "returned" /\ raised' = "RuntimeError"
       ELSE cpc' = "init_workers" /\ raised' = "none"
    /\ UNCHANGED <<offPipeline, initFrame, gpu_count, workers, executor,
                   max_workers, stats>>

\* process_batch or process_stream finds the executor, lines 461 and 503:
\* initialize() is not called and the workers are used as they are
ProcessCall ==
    /\ CallerReady
    /\ calls < MaxInitCalls
    /\ executor # "none"
    /\ calls' = calls + 1
    /\ cpc' = "returned"
    /\ raised' = "none"
    /\ UNCHANGED <<offPipeline, initFrame, gpu_count, workers, executor,
                   max_workers, stats, idx>>

\* lines 443-450, one iteration: a worker is created for GPU idx, its
\* models are loaded and it is appended to self.workers
CreateWorker ==
    /\ cpc = "init_workers"
    /\ idx < gpu_count
    /\ workers' = Append(workers, idx)
    /\ stats' = Append(stats, NewStats)
    /\ idx' = idx + 1
    /\ UNCHANGED <<offPipeline, initFrame, gpu_count, executor, max_workers,
                   cpc, raised, calls>>

\* line 449: initialize_models raises and initialize() with it; the
\* workers appended so far stay in self.workers
CreateWorkerRaise ==
    /\ cpc = "init_workers"
    /\ idx < gpu_count
    /\ cpc' = "returned"
    /\ raised' = "initialize_models"
    /\ UNCHANGED <<offPipeline, initFrame, gpu_count, workers, executor,
                   max_workers, stats, idx, calls>>

\* lines 452-456: the executor is created and initialize() returns
CreateExecutor ==
    /\ cpc = "init_workers"
    /\ idx = gpu_count
    /\ executor' = "running"
    /\ max_workers' = gpu_count
    /\ cpc' = "returned"
    /\ UNCHANGED <<offPipeline, initFrame, gpu_count, workers, stats, idx,
                   raised, calls>>

NextInitialize ==
    \/ InitializeCall
    \/ ProcessCall
    \/ CreateWorker
    \/ CreateWorkerRaise
    \/ CreateExecutor

(***************************************************************************)
(* gpu_pipeline.py: GPUTranscriptionWorker._add_diarization inside         *)
(* process_job, and transcriber.py: Transcriber.align_with_diarization.    *)
(* Times are in seconds.                                                   *)
(***************************************************************************)
\* a segment without the key 'speaker'
NoLabel == ""

\* the (start, end) of the transcript segments and of the speaker turns
SegmentSpans == {<<0, 1>>, <<1, 3>>, <<4, 5>>}
TurnSpans == {<<0, 2>>, <<1, 3>>, <<2, 4>>}
TurnSpeakers == {"SPEAKER_00", "SPEAKER_01"}

\* the transcripts of 1..MaxDiarSegs segments, not labelled yet
RECURSIVE Unlabelled(_)
Unlabelled(n) ==
    IF n = 0 THEN {<<>>}
    ELSE {Append(l, [start |-> t[1], end |-> t[2], speaker |-> NoLabel]) :
             l \in Unlabelled(n - 1), t \in SegmentSpans}

\* the outputs of the diarization model: up to MaxTurns turns in any order
RECURSIVE TurnLists(_)
TurnLists(n) ==
    IF n = 0 THEN {<<>>}
    ELSE {Append(l, [start |-> t[1], end |-> t[2], speaker |-> sp]) :
             l \in TurnLists(n - 1), t \in TurnSpans, sp \in TurnSpeakers}

\* the job before process_job and the counters of its worker
NewDiarJob == [status |-> "pending", jobs_completed |-> 0, jobs_failed |-> 0]

\* no transcript is diarized
DiarIdle ==
    /\ zpc = "off"
    /\ d_segments = <<>>
    /\ turns = <<>>
    /\ d_info = "none"
    /\ aligned_segments = <<>>
    /\ d_job = NewDiarJob

\* a transcript has been produced and the diarization is about to run
DiarInit ==
    /\ zpc = "diarize"
    /\ d_segments \in UNION {Unlabelled(n) : n \in 1..MaxDiarSegs}
    /\ turns \in UNION {TurnLists(n) : n \in 0..MaxTurns}
    /\ d_info = "none"
    /\ aligned_segments = <<>>
    /\ d_job = [NewDiarJob EXCEPT !.status = "processing"]

\* the duration of the intersection of a turn and a segment, 0 if they do
\* not intersect
OverlapDuration(turn, seg) ==
    LET lo == IF turn.start > seg.start THEN turn.start ELSE seg.start
        hi == Min(turn.end, seg.end)
    IN IF hi > lo THEN hi - lo ELSE 0

\* list.sort(key=...) places x after every element whose key is not
\* greater (the sort is stable); the elements are [key, item]
RECURSIVE SortedByKey(_)
SortedByKey(list) ==
    IF list = <<>> THEN <<>>
    ELSE LET rest == SortedByKey(SubSeq(list, 1, Len(list) - 1))
             x == list[Len(list)]
             n == Cardinality({k \in 1..Len(rest) : rest[k].key <= x.key})
         IN SubSeq(rest, 1, n) \o <<x>> \o SubSeq(rest, n + 1, Len(rest))

\* the list sorted by key(element), elements of equal key in their order
StableSort(list, key(_)) ==
    LET keyed == [i \in 1..Len(list) |->
                     [key |-> key(list[i]), item |-> list[i]]]
        sorted_ == SortedByKey(keyed)
    IN [i \in 1..Len(list) |-> sorted_[i].item]

\* itertracks of the annotation: the tracks in the order of their
\* segments, by start and then by end (all times are below 100)
Itertracks(d) == StableSort(d, LAMBDA t : 100 * t.start + t.end)

\* Mutant of SpeakerTimeline: the timeline is left in the order given.
SpeakerTimelineAsGiven(d) == d

\* transcriber.py, lines 360-370: the timeline sorted by start
SpeakerTimeline(d) == StableSort(d, LAMBDA t : t.start)

\* the turns of a timeline that meet the segment, in the order of the
\* timeline (gpu_pipeline.py, lines 281-285; transcriber.py, lines 380-389)
RECURSIVE Overlapping(_, _)
Overlapping(timeline, seg) ==
    IF timeline = <<>> THEN <<>>
    ELSE LET t == Head(timeline)
         IN (IF t.end > seg.start /\ t.start < seg.end
             THEN <<[speaker |-> t.speaker,
                     overlap |-> OverlapDuration(t, seg)]>>
             ELSE <<>>) \o Overlapping(Tail(timeline), seg)

\* speakers.sort(key=overlap, reverse=True): stable, largest overlap first
ByOverlap(speakers) == StableSort(speakers, LAMBDA sp : 0 - sp.overlap)

\* gpu_pipeline.py, lines 276-292: the label of one segment
GpuLabel(d, seg) ==
    LET speakers == Overlapping(Itertracks(d), seg)
    IN IF speakers # <<>> THEN ByOverlap(speakers)[1].speaker ELSE "Unknown"

\* transcriber.py, lines 374-391: the label of one segment
AlignedLabel(d, seg) ==
    LET speakers == Overlapping(SpeakerTimeline(d), seg)
    IN IF speakers # <<>> THEN ByOverlap(speakers)[1].speaker ELSE "UNKNOWN"

\* _add_diarization, lines 272-299: the model answers and every segment is
\* labelled
AddDiarizationOk ==
    /\ zpc = "diarize"
    /\ d_segments' = [i \in 1..Len(d_segments) |->
                         [d_segments[i] EXCEPT
                             !.speaker = GpuLabel(turns, d_segments[i])]]
    /\ d_info' = "enabled"
    /\ zpc' = "save"
    /\ UNCHANGED <<offDiar, turns, aligned_segments, d_job>>

\* _add_diarization, lines 274 and 301-306: the model raises; the error is
\* recorded in result['diarization'] and the segments stay as they were
AddDiarizationRaise ==
    /\ zpc = "diarize"
    /\ d_info' = "error"
    /\ zpc' = "save"
    /\ UNCHANGED <<offDiar, d_segments, turns, aligned_segments, d_job>>

\* process_job, lines 175-186: the result is saved and the job completed
DiarJobCompleted ==
    /\ zpc = "save"
    /\ d_job' = [d_job EXCEPT !.status = "completed",
                              !.jobs_completed = @ + 1]
    /\ zpc' = "returned"
    /\ UNCHANGED <<offDiar, d_segments, turns, d_info, aligned_segments>>

\* process_job, lines 179 and 188-194: _save_results raises
DiarJobFailed ==
    /\ zpc = "save"
    /\ d_job' = [d_job EXCEPT !.status = "failed", !.jobs_failed = @ + 1]
    /\ zpc' = "returned"
    /\ UNCHANGED <<offDiar, d_segments, turns, d_info, aligned_segments>>

\* transcriber.py, lines 335-414: align_with_diarization on the same
\* transcript and turns
AlignWithDiarization ==
    /\ zpc = "diarize"
    /\ aligned_segments' =
          [i \in 1..Len(d_segments) |->
              [d_segments[i] EXCEPT
                  !.speaker = AlignedLabel(turns, d_segments[i])]]
    /\ zpc' = "aligned"
    /\ UNCHANGED <<offDiar, d_segments, turns, d_info, d_job>>

NextDiar ==
    \/ AddDiarizationOk
    \/ AddDiarizationRaise
    \/ DiarJobCompleted
    \/ DiarJobFailed
    \/ AlignWithDiarization

(***************************************************************************)
(* gpu_pipeline.py: get_statistics reading the statistics of one worker    *)
(* while another thread runs process_job on that worker.                   *)
(***************************************************************************)
\* the counters and current_job of self.stats
StatsTriple(st) == <<st.jobs_completed, st.jobs_failed, st.current_job>>

\* the entry of get_statistics before any field is read
NoEntry == <<>>

\* nothing is read
SnapIdle ==
    /\ wk_pc = "off"
    /\ gs_pc = "off"
    /\ wk_job = 0
    /\ wstats = NewStats
    /\ gs_entry = NoEntry
    /\ held = {}

\* a worker about to process jobs and a caller about to call get_statistics
SnapInit ==
    /\ wk_pc = "idle"
    /\ gs_pc = "idle"
    /\ wk_job = 0
    /\ wstats = NewStats
    /\ gs_entry = NoEntry
    /\ held = {StatsTriple(NewStats)}

\* process_job, lines 158-162, under the lock: current_job is set
SnapJobBegin ==
    /\ wk_pc = "idle"
    /\ wk_job < MaxSnapJobs
    /\ wk_job' = wk_job + 1
    /\ wstats' = [wstats EXCEPT !.current_job = wk_job + 1]
    /\ held' = held \cup {StatsTriple(wstats')}
    /\ wk_pc' = "body"
    /\ UNCHANGED <<offSnap, gs_pc, gs_entry>>

\* process_job, lines 184-185, under the lock: jobs_completed += 1
SnapJobCountOk ==
    /\ wk_pc = "body"
    /\ wstats' = [wstats EXCEPT !.jobs_completed = @ + 1]
    /\ held' = held \cup {StatsTriple(wstats')}
    /\ wk_pc' = "finally"
    /\ UNCHANGED <<offSnap, wk_job, gs_pc, gs_entry>>

\* process_job, lines 192-193, under the lock: jobs_failed += 1
SnapJobCountFail ==
    /\ wk_pc = "body"
    /\ wstats' = [wstats EXCEPT !.jobs_failed = @ + 1]
    /\ held' = held \cup {StatsTriple(wstats')}
    /\ wk_pc' = "finally"
    /\ UNCHANGED <<offSnap, wk_job, gs_pc, gs_entry>>

\* process_job, lines 198-201, under the lock: current_job = None
SnapJobFinally ==
    /\ wk_pc = "finally"
    /\ wstats' = [wstats EXCEPT !.current_job = None]
    /\ held' = held \cup {StatsTriple(wstats')}
    /\ wk_pc' = "idle"
    /\ UNCHANGED <<offSnap, wk_job, gs_pc, gs_entry>>

\* get_stats, lines 409-417: under the lock the memory figures are
\* refreshed and self.stats itself, not a copy, is returned
SnapGetStats ==
    /\ gs_pc = "idle"
    /\ gs_pc' = "jobs_completed"
    /\ UNCHANGED <<offSnap, wk_pc, wk_job, wstats, gs_entry, held>>

\* get_statistics, lines 581-590: the fields of the object returned are
\* read one after the other, outside the lock
SnapReadField ==
    /\ gs_pc \in {"jobs_completed", "jobs_failed", "current_job"}
    /\ gs_entry' = Append(gs_entry, wstats[gs_pc])
    /\ gs_pc' = CASE gs_pc = "jobs_completed" -> "jobs_failed"
                  [] gs_pc = "jobs_failed" -> "current_job"
                  [] gs_pc = "current_job" -> "returned"
    /\ UNCHANGED <<offSnap, wk_pc, wk_job, wstats, held>>

NextSnap ==
    \/ SnapJobBegin
    \/ SnapJobCountOk
    \/ SnapJobCountFail
    \/ SnapJobFinally
    \/ SnapGetStats
    \/ SnapReadField

(***************************************************************************)
(* exporters.py: the exporters of ExportManager applied, one after the     *)
(* other, to one transcript held by the caller.  Times are in tenths of a  *)
(* second.                                                                 *)
(***************************************************************************)
\* the formats of ExportManager.exporters, lines 329-334
ExportFormats == {"srt", "vtt", "csv", "json"}

\* no file of a format has been written
NoExport == <<>>

\* the k-th segment of a transcript: a word of text with its entry in
\* 'words', by one of two speakers, close to the next segment or far
SegmentsAt(k) ==
    {[start |-> 20 * (k - 1), end |-> 20 * (k - 1) + len,
      text |-> <<Words[k]>>, speaker_name |-> sp, words |-> <<Words[k]>>] :
        len \in {10, 18}, sp \in Speakers}

RECURSIVE Transcripts(_)
\* the transcripts of n segments
Transcripts(n) ==
    IF n = 0 THEN {<<>>}
    ELSE {Append(l, seg) : l \in Transcripts(n - 1), seg \in SegmentsAt(n)}

\* nothing is exported
PureIdle ==
    /\ p_segments = <<>>
    /\ p_config = [include_word_timestamps |-> TRUE,
                   merge_consecutive |-> TRUE]
    /\ p_files = [f \in ExportFormats |-> NoExport]
    /\ p_exports = 0

\* a transcript and the configuration of the exporters
PureInit ==
    /\ p_segments \in UNION {Transcripts(n) : n \in 1..MaxPureSegs}
    /\ p_config \in [include_word_timestamps : BOOLEAN,
                     merge_consecutive : BOOLEAN]
    /\ p_files = [f \in ExportFormats |-> NoExport]
    /\ p_exports = 0

RECURSIVE MergeInPlace(_, _, _, _)
\* _merge_segments, lines 86-106, from segment i on, with the locals merged
\* and current.  current is segment.copy(), a shallow copy: its 'words' is
\* the list of segment head of the caller, which line 100 extends.  The
\* result is the list returned and the caller's segments afterwards.
MergeInPlace(segs, i, merged_, head) ==
    IF i > Len(segs)
    THEN [merged |-> IF head = 0 THEN merged_
                     ELSE Append(merged_, [segs[head] EXCEPT
                                              !.end = segs[i - 1].end]),
          segments |-> segs]
    ELSE IF head = 0
    THEN MergeInPlace(segs, i + 1, merged_, i)
    ELSE IF /\ segs[i].speaker_name = segs[head].speaker_name
            /\ segs[i].start - segs[i - 1].end <= merge_threshold
    THEN MergeInPlace([segs EXCEPT ![head].words = @ \o segs[i].words],
                      i + 1, merged_, head)
    ELSE MergeInPlace(segs, i + 1,
                      Append(merged_, [segs[head] EXCEPT
                                          !.end = segs[i - 1].end]),
                      i)

\* _merge_segments, lines 81-108
MergedInPlace(segs) ==
    IF ~p_config.merge_consecutive \/ segs = <<>>
    THEN [merged |-> segs, segments |-> segs]
    ELSE MergeInPlace(segs, 1, <<>>, 0)

\* the cues SRTExporter and VTTExporter write for the merged segments:
\* the times and the speaker (the words lists are not printed)
Cues(merged_) ==
    [i \in 1..Len(merged_) |->
        [start |-> merged_[i].start, end |-> merged_[i].end,
         speaker |-> merged_[i].speaker_name]]

\* SRTExporter.export, lines 114-146, VTTExporter.export, lines 152-187
ExportCues(format) ==
    /\ p_exports < MaxExports
    /\ LET r == MergedInPlace(p_segments)
       IN /\ p_files' = [p_files EXCEPT ![format] = <<Cues(r.merged)>>]
          /\ p_segments' = r.segments
    /\ p_exports' = p_exports + 1
    /\ UNCHANGED <<offPure, p_config>>

\* CSVExporter.export, lines 193-258: one row per segment, with word_count
\* and words_json if word timestamps are included and the segment has words
ExportCsv ==
    /\ p_exports < MaxExports
    /\ p_files' =
          [p_files EXCEPT !["csv"] =
              <<[i \in 1..Len(p_segments) |->
                    [start |-> p_segments[i].start,
                     end |-> p_segments[i].end,
                     text |-> p_segments[i].text,
                     words |-> IF p_config.include_word_timestamps
                               THEN p_segments[i].words ELSE <<>>]]>>]
    /\ p_exports' = p_exports + 1
    /\ UNCHANGED <<offPure, p_config, p_segments>>

RECURSIVE TotalWords(_)
\* sum(len(s.get('words', [])) for s in segments)
TotalWords(segs) ==
    IF segs = <<>> THEN 0 ELSE Len(Head(segs).words) + TotalWords(Tail(segs))

\* JSONExporter.export, lines 264-315: data.copy() is shallow, so the
\* segments popped of 'words' (lines 302-304) are the caller's; the
\* statistics are computed before
ExportJson ==
    /\ p_exports < MaxExports
    /\ LET stripped == [i \in 1..Len(p_segments) |->
                           [p_segments[i] EXCEPT !.words = <<>>]]
           after == IF p_config.include_word_timestamps
                    THEN p_segments ELSE stripped
       IN /\ p_files' =
                [p_files EXCEPT !["json"] =
                    <<[segments |-> after,
                       total_words |-> TotalWords(p_segments)]>>]
          /\ p_segments' = after
    /\ p_exports' = p_exports + 1
    /\ UNCHANGED <<offPure, p_config>>

NextPure ==
    \/ ExportCues("srt")
    \/ ExportCues("vtt")
    \/ ExportCsv
    \/ ExportJson

(***************************************************************************)
(* gpu_pipeline.py: the output paths process_batch and process_stream give *)
(* to the jobs of one call, and the files _save_results writes.  A path is *)
(* the sequence of its parts; a file name is <<stem, suffix>>.             *)
(***************************************************************************)
InputDirs == {"a", "b"}
InputStems == {"x", "y"}
InputSuffixes == {".wav", ".mp4"}
OutputDir == <<"out">>

\* the input files a caller can pass
InputPaths ==
    {[dir |-> <<d>>, name |-> <<s, x>>] :
        d \in InputDirs, s \in InputStems, x \in InputSuffixes}

RECURSIVE DistinctLists(_, _)
\* the lists of n distinct elements of S
DistinctLists(S, n) ==
    IF n = 0 THEN {<<>>}
    ELSE UNION {{Append(l, e) : e \in S \ {l[i] : i \in 1..Len(l)}} :
                   l \in DistinctLists(S, n - 1)}

\* Path.stem: the final component without its suffix
InputStem(path) == path.name[1]

\* output_dir / input_file.stem / 'transcript', lines 472 and 524
OutputPath(output_dir, input_file) ==
    [dir |-> output_dir \o <<InputStem(input_file)>>, name |-> <<"transcript", "">>]

\* Path.with_suffix
WithSuffix(path, suffix) == [path EXCEPT !.name[2] = suffix]

\* json_path of _save_results, line 334
JsonPath(job) == WithSuffix(job.output_path, ".json")

\* no call is made
PathIdle ==
    /\ o_call = "none"
    /\ o_inputs = <<>>
    /\ o_jobs = <<>>
    /\ o_saved = {}
    /\ o_files = {}

\* a call of process_batch or process_stream with distinct input files
PathInit ==
    /\ o_call \in {"process_batch", "process_stream"}
    /\ o_inputs \in UNION {DistinctLists(InputPaths, n) :
                              n \in 1..MaxPathInputs}
    /\ o_jobs = <<>>
    /\ o_saved = {}
    /\ o_files = {}

\* the loops that create the jobs: process_batch, lines 468-476, and
\* process_stream, lines 517-529
PathCreateJob ==
    /\ Len(o_jobs) < Len(o_inputs)
    /\ LET i == Len(o_jobs)
           input_file == o_inputs[i + 1]
       IN o_jobs' = Append(o_jobs,
              [job_id |-> IF o_call = "process_batch"
                          THEN <<"job", i, InputStem(input_file)>>
                          ELSE <<"stream_job", i>>,
               input_path |-> input_file,
               output_path |-> OutputPath(OutputDir, input_file)])
    /\ UNCHANGED <<offPath, o_call, o_inputs, o_saved, o_files>>

\* _save_results of job j, lines 327-336: the JSON file is opened for
\* writing, whatever it held
PathSaveResults(j) ==
    /\ j \in DOMAIN o_jobs
    /\ j \notin o_saved
    /\ o_saved' = o_saved \cup {j}
    /\ o_files' = {f \in o_files : f.path # JsonPath(o_jobs[j])} \cup
                  {[path |-> JsonPath(o_jobs[j]), job |-> j]}
    /\ UNCHANGED <<offPath, o_call, o_inputs, o_jobs>>

NextPath ==
    \/ PathCreateJob
    \/ \E j \in 1..MaxPathInputs : PathSaveResults(j)

\* none of the pure computations runs
CalcIdle ==
    /\ ExportIdle
    /\ CollectIdle
    /\ SplitIdle
    /\ DetectIdle
    /\ DiarIdle
    /\ SnapIdle
    /\ PureIdle
    /\ PathIdle

\* no program runs
AllIdle ==
    /\ WorkerInit /\ PipeConstructed /\ gpu_count = 1
    /\ TransIdle /\ HashIdle /\ OrchIdle /\ ExecIdle

(***************************************************************************)
(* Specifications                                                          *)
(***************************************************************************)
\* worker.py: NumWorkers worker processes on one staging directory
InitWorker ==
    /\ WorkerInit /\ PipeConstructed /\ gpu_count = 1
    /\ TransIdle /\ HashIdle /\ OrchIdle /\ ExecIdle /\ CalcIdle
SpecWorker == InitWorker /\ [][NextWorker]_vars

\* worker.py: the worker processes, none of which stops: each is a process
\* of its own that the operating system keeps scheduling, and every call it
\* makes returns
SpecWorkerFair ==
    InitWorker /\ [][NextWorker]_vars /\ \A w \in WorkerIds : WF_vars(Run(w))

\* worker.py: the worker processes, one of which may stop while it holds a
\* claim
NextCrash ==
    \/ NextWorker
    \/ \E w \in WorkerIds : Crash(w)
SpecCrash == InitWorker /\ [][NextCrash]_vars

\* gpu_pipeline.py: one process_batch call on an initialized pipeline
InitBatch ==
    /\ WorkerInit /\ PipeInitialized
    /\ TransIdle /\ HashIdle /\ OrchIdle /\ ExecIdle /\ CalcIdle
SpecBatch == InitBatch /\ [][NextBatch]_vars

\* gpu_pipeline.py: the job creation and submission loops of process_batch
\* (lines 464-482) for up to MaxDispatch inputs
NextDispatch ==
    \/ \E n \in 0..MaxDispatch : calls = 0 /\ BatchStart(n)
    \/ BatchSubmit
SpecDispatch == InitBatch /\ [][NextDispatch]_vars

\* gpu_pipeline.py: one process_batch call with one input per GPU on a
\* machine of ManyGpus GPUs, followed until every job is 'processing' (the
\* end of a job only lowers the number of jobs in flight)
InitManyGpus ==
    /\ WorkerInit /\ PipeInitializedOn(ManyGpus)
    /\ TransIdle /\ HashIdle /\ OrchIdle /\ ExecIdle /\ CalcIdle
NextManyGpus ==
    \/ calls = 0 /\ BatchStart(ManyGpus)
    \/ BatchSubmit
    \/ \E r \in ExecThreads :
          \/ ExecTake(r)
          \/ PJBegin(r)
SpecManyGpus == InitManyGpus /\ [][NextManyGpus]_vars

\* gpu_pipeline.py: one process_stream call on an initialized pipeline, and
\* a shutdown() that another thread may call while it runs
NextStream ==
    \/ \E n \in 0..MaxStream : cpc = "idle" /\ StreamStart(n)
    \/ StreamStartThread
    \/ StreamProduce
    \/ StreamBreak
    \/ StreamPutSentinel
    \/ StreamJoin
    \/ StreamCollect
    \/ \E r \in Consumers : WorkerLoopStep(r)
    \/ cpc \notin {"idle", "returned"} /\ spc = "idle" /\ SdSetFlag
    \/ SdExecutor
    \/ SdDone
SpecStream == InitBatch /\ [][NextStream]_vars

\* gpu_pipeline.py: up to MaxCalls calls of process_batch, process_stream,
\* get_statistics and shutdown, one after the other, on an initialized
\* pipeline
NextLifecycle ==
    \/ /\ calls < MaxCalls
       /\ spc \in {"idle", "done"}
       /\ \/ \E n \in 0..MaxCallInputs : BatchStart(n)
          \/ \E n \in 0..MaxCallInputs : StreamStart(n)
          \/ GetStatistics
          \/ CallerReady /\ SdSetFlag
    \/ SdExecutor
    \/ SdDone
    \/ BatchSubmit
    \/ BatchSubmitRaise
    \/ BatchCollectResult
    \/ BatchCollectException
    \/ BatchReturn
    \/ \E r \in ExecThreads :
          \/ ExecTake(r)
          \/ ProcessJobStep(r)
          \/ ExecSetResult(r)
          \/ ExecSetException(r)
    \/ StreamStartThread
    \/ StreamProduce
    \/ StreamBreak
    \/ StreamPutSentinel
    \/ StreamJoin
    \/ StreamCollect
    \/ \E r \in Consumers : WorkerLoopStep(r)
SpecLifecycle == InitBatch /\ [][NextLifecycle]_vars

\* optimized_transcribe_gpu.py: one process_files run
InitTranscriber ==
    /\ WorkerInit /\ PipeConstructed /\ gpu_count = 1
    /\ TransInit /\ HashIdle /\ OrchIdle /\ ExecIdle /\ CalcIdle
SpecTranscriber == InitTranscriber /\ [][NextTranscriber]_vars

\* batch_orchestrator.py: one generate_hashes operation
InitHashes ==
    /\ WorkerInit /\ PipeConstructed /\ gpu_count = 1
    /\ TransIdle /\ HashInit /\ OrchIdle /\ ExecIdle /\ CalcIdle
SpecHashes == InitHashes /\ [][NextHashes]_vars

\* batch_orchestrator.py: one process_batch operation on an initialized
\* pipeline
InitOrchestrate ==
    /\ WorkerInit /\ PipeInitialized
    /\ TransIdle /\ HashIdle /\ OrchInit /\ ExecIdle /\ CalcIdle
SpecOrchestrate == InitOrchestrate /\ [][NextOrchestrate]_vars

\* batch_orchestrator.py: one call of execute
InitExecute ==
    /\ WorkerInit /\ PipeConstructed /\ gpu_count = 1
    /\ TransIdle /\ HashIdle /\ OrchIdle /\ ExecInit /\ CalcIdle
SpecExecute == InitExecute /\ [][NextExecute]_vars

\* exporters.py: one transcript is merged and exported
InitExport ==
    AllIdle /\ ExportInit /\ CollectIdle /\ SplitIdle /\ DetectIdle
    /\ DiarIdle
    /\ SnapIdle
    /\ PureIdle
    /\ PathIdle
SpecExport == InitExport /\ [][NextExport]_vars

\* gpu_pipeline.py, pipeline.py: the segments of one transcript are
\* collected
InitCollect ==
    AllIdle /\ ExportIdle /\ CollectInit /\ SplitIdle /\ DetectIdle
    /\ DiarIdle
    /\ SnapIdle
    /\ PureIdle
    /\ PathIdle
SpecCollect == InitCollect /\ [][NextCollect]_vars

\* audio_extractor.py: one call of split_long_audio
InitSplit ==
    AllIdle /\ ExportIdle /\ CollectIdle /\ SplitInit /\ DetectIdle
    /\ DiarIdle
    /\ SnapIdle
    /\ PureIdle
    /\ PathIdle
SpecSplit == InitSplit /\ [][NextSplit]_vars

\* audio_extractor.py: split_long_audio with any overlap
InitSplitAny ==
    AllIdle /\ ExportIdle /\ CollectIdle /\ SplitInitAny /\ DetectIdle
    /\ DiarIdle
    /\ SnapIdle
    /\ PureIdle
    /\ PathIdle
SpecSplitAny == InitSplitAny /\ [][NextSplit]_vars

\* hardware_optimizer.py: one construction of HardwareOptimizer
InitDetect ==
    AllIdle /\ ExportIdle /\ CollectIdle /\ SplitIdle /\ DetectInit
    /\ DiarIdle
    /\ SnapIdle
    /\ PureIdle
    /\ PathIdle
SpecDetect == InitDetect /\ [][NextDetect]_vars

\* gpu_pipeline.py, transcriber.py: one transcript gets its speaker labels
InitDiar ==
    AllIdle /\ ExportIdle /\ CollectIdle /\ SplitIdle /\ DetectIdle
    /\ DiarInit
    /\ SnapIdle
    /\ PureIdle
    /\ PathIdle
SpecDiar == InitDiar /\ [][NextDiar]_vars

\* gpu_pipeline.py: get_statistics while a worker processes jobs
InitSnap ==
    AllIdle /\ ExportIdle /\ CollectIdle /\ SplitIdle
    /\ DetectIdle /\ DiarIdle /\ SnapInit
    /\ PureIdle
    /\ PathIdle
SpecSnap == InitSnap /\ [][NextSnap]_vars

\* gpu_pipeline.py: up to MaxInitCalls calls of initialize, process_batch
\* and process_stream on a pipeline just constructed
InitInitialize ==
    /\ WorkerInit /\ PipeConstructed
    /\ TransIdle /\ HashIdle /\ OrchIdle /\ ExecIdle /\ CalcIdle
SpecInitialize == InitInitialize /\ [][NextInitialize]_vars

\* exporters.py: up to MaxExports exports of one transcript
InitPure ==
    AllIdle /\ ExportIdle /\ CollectIdle /\ SplitIdle
    /\ DetectIdle /\ DiarIdle /\ SnapIdle /\ PureInit
    /\ PathIdle
SpecPure == InitPure /\ [][NextPure]_vars

\* gpu_pipeline.py: the output paths of the jobs of one call
InitPath ==
    AllIdle /\ ExportIdle /\ CollectIdle /\ SplitIdle
    /\ DetectIdle /\ DiarIdle /\ SnapIdle /\ PureIdle /\ PathInit
SpecPath == InitPath /\ [][NextPath]_vars

(***************************************************************************)
(* Claims about worker.py.                                                 *)
(***************************************************************************)

\* worker w holds the claim on video v: its try_claim_video(v) returned True
\* and its release_video has not yet removed the lock file
Holds(w, v) ==
    /\ wpc[w] \in {"write_lock", "process", "rel_lock"}
    /\ Basename(video_path[w]) = v

\* C1: a try_claim_video call returns True if and only if no lock file for
\* the video's basename exists at the moment of the call, and at most one
\* worker holds the claim on a given video in every reachable state.
C1_ExclusiveClaim ==
    /\ \A w \in WorkerIds :
          claimRet[w].called => (claimRet[w].ret <=> ~claimRet[w].existed)
    /\ \A v \in VideoNames :
          Cardinality({w \in WorkerIds : Holds(w, v)}) <= 1

\* a worker's call returned False while another worker holds the claim on
\* that video
C1_Witness ==
    \E w, h \in WorkerIds :
        /\ w # h
        /\ claimRet[w].called
        /\ ~claimRet[w].ret
        /\ Holds(h, claimRet[w].name)

\* C2: under every interleaving of the claim -> process -> release loops
\* each input is claimed exactly once overall: no input is claimed again
\* after it has been claimed (and released) once, and none is processed twice.
C2_ClaimedOnce ==
    \A v \in VideoNames : claims[v] <= 1 /\ processedBy[v] <= 1

(***************************************************************************)
(* Claims about gpu_pipeline.py: process_batch.                            *)
(***************************************************************************)
JobIds == 1..Len(jobs)
Terminal == {"completed", "failed"}

\* the jobs that are being processed on worker k: process_job stamps the
\* worker's gpu_id on the jobs it marks 'processing'
ProcessingOn(k) ==
    {j \in JobIds : jobs[j].status = "processing" /\ jobs[j].gpu_id = workers[k]}

\* C3: each GPU worker executes at most one job at a time: no two jobs
\* assigned to the same worker are in status 'processing' at the same time.
C3_OneJobPerWorker ==
    \A k \in 1..Len(workers) : Cardinality(ProcessingOn(k)) <= 1

\* C4: the list process_batch returns has the length of the input list and
\* its element i is the job created for input_files[i], whatever the order
\* in which the jobs finished.
C4_BatchResultOrder ==
    cpc = "returned" =>
        /\ Len(ret) = Len(input_files)
        /\ \A i \in 1..Len(ret) :
              /\ jobs[ret[i]].input_path = input_files[i]
              /\ jobs[ret[i]].priority = i - 1

\* process_batch has returned after a later input's job finished before an
\* earlier input's job
C4_Witness ==
    /\ cpc = "returned"
    /\ Len(ret) >= 2
    /\ out_of_order

\* the number of queued work items handed to worker k
QueuedFor(k) ==
    Cardinality({i \in 1..Len(work_queue) : work_queue[i].worker = k})

\* C5: input i is assigned to worker i mod W, so the numbers of jobs
\* assigned to any two workers differ by at most 1 (8 inputs on 2 workers
\* give 4 each).
C5_RoundRobin ==
    /\ \A i \in 1..Len(work_queue) :
          /\ work_queue[i].job = i
          /\ workers[work_queue[i].worker] = (i - 1) % gpu_count
    /\ cpc = "pb_collect" =>
          /\ Len(work_queue) = Len(input_files)
          /\ \A a, b \in 1..Len(workers) :
                QueuedFor(a) - QueuedFor(b) <= 1
          /\ (Len(input_files) = 8 /\ gpu_count = 2) =>
                (QueuedFor(1) = 4 /\ QueuedFor(2) = 4)

\* 8 inputs have been submitted to 2 workers
C5_Witness ==
    /\ cpc = "pb_collect"
    /\ Len(input_files) = 8
    /\ gpu_count = 2
    /\ Len(work_queue) = 8

\* C6: process_batch returns only after every submitted job has reached a
\* terminal status; every returned job is 'completed' or 'failed'; a job
\* whose processing raised is returned 'failed' with an error; and no job
\* failure is raised to the caller.
C6_BatchTerminal ==
    /\ raised = "none"
    /\ cpc = "returned" =>
          /\ Len(ret) = Len(input_files)
          /\ \A r \in ExecThreads : rjob[r] = None
          /\ \A i \in 1..Len(ret) :
                /\ jobs[ret[i]].status \in Terminal
                /\ jobs[ret[i]].end_time
                /\ future[ret[i]] \in {"result", "exception"}
                /\ jobs[ret[i]].status = "failed" => jobs[ret[i]].error
                /\ future[ret[i]] = "exception" =>
                      jobs[ret[i]].status = "failed" /\ jobs[ret[i]].error

\* process_batch has returned a job that failed inside process_job and a job
\* whose process_job call raised after it had marked the job completed
C6_Witness ==
    /\ cpc = "returned"
    /\ \E i, j \in 1..Len(ret) :
          /\ future[ret[i]] = "result"
          /\ jobs[ret[i]].status = "failed"
          /\ future[ret[j]] = "exception"
          /\ jobs[ret[j]].result

(***************************************************************************)
(* Claims about gpu_pipeline.py: process_stream, shutdown and the calls    *)
(* made in sequence.                                                       *)
(***************************************************************************)
\* the number of places job j takes in the list the call returned
TimesReturned(j) == Cardinality({i \in 1..Len(ret) : ret[i] = j})

\* C7: if shutdown is not requested, process_stream over a generator of n
\* inputs returns exactly n jobs: every job it enqueued appears exactly
\* once in the returned list and is 'completed' or 'failed'.
C7_StreamReturnsAll ==
    (cpc = "returned" /\ ~shutdown_flag) =>
        /\ Len(ret) = Len(input_files)
        /\ \A j \in JobIds :
              /\ TimesReturned(j) = 1
              /\ jobs[j].status \in Terminal

\* C8: when process_stream returns after the shutdown flag was set while it
\* ran, every consumer thread has exited, no job is left 'processing', and
\* every job that had started processing is 'completed' or 'failed' and is
\* in the returned list.
C8_ShutdownDrains ==
    (cpc = "returned" /\ shutdown_flag) =>
        /\ \A k \in 1..Len(workers) : rpc[<<"cons", k>>] = "exited"
        /\ \A j \in JobIds :
              /\ jobs[j].status # "processing"
              /\ jobs[j].start_time =>
                    (jobs[j].status \in Terminal /\ TimesReturned(j) = 1)

\* C9: once shutdown() has set the shutdown flag, no job changes from
\* 'pending' to 'processing'.
C9_NoNewJobAfterShutdown ==
    [][shutdown_flag =>
          \A j \in JobIds :
              ~(jobs[j].status = "pending" /\ jobs'[j].status = "processing")
      ]_vars

\* C10: on an initialized pipeline no call of process_batch, process_stream,
\* get_statistics or shutdown raises to its caller, calls made after
\* shutdown() included.
C10_NeverRaises == raised = "none"

(***************************************************************************)
(* Claims about gpu_pipeline.py: jobs in flight, job status, counters.     *)
(***************************************************************************)
\* hardware_optimizer.py, lines 210 and 238-239: max_parallel_files is 1,
\* or min(gpu_count, 4) on a machine of several GPUs
MaxParallelFiles(n) == IF n > 1 THEN (IF n < 4 THEN n ELSE 4) ELSE 1

\* the jobs in status 'processing'
InFlight == {j \in JobIds : jobs[j].status = "processing"}

\* C11: during process_batch the number of jobs in status 'processing'
\* never exceeds min(gpu_count, max_parallel_jobs), max_parallel_jobs being
\* min(gpu_count, 4): never more than 4 jobs in flight.
C11_InFlightBound ==
    LET m == MaxParallelFiles(gpu_count)
    IN Cardinality(InFlight) <= (IF gpu_count < m THEN gpu_count ELSE m)

\* the status changes the life of a job allows
Forward ==
    {<<"pending", "processing">>, <<"processing", "completed">>,
     <<"processing", "failed">>}

\* C12: each job's status only moves forward, pending -> processing ->
\* completed or failed: a job enters 'processing' at most once, on one
\* worker, and a 'completed' or 'failed' status never changes again.
C12_StatusForward ==
    [][\A j \in JobIds :
          /\ jobs'[j].status # jobs[j].status =>
                <<jobs[j].status, jobs'[j].status>> \in Forward
          /\ jobs[j].status # "pending" => jobs'[j].gpu_id = jobs[j].gpu_id
      ]_vars

\* a process_job call on worker k is between its first lock block and its
\* return
RunningOn(k) ==
    \E r \in Runners :
        /\ rworker[r] = k
        /\ rpc[r] \in {"pj_body", "pj_count_ok", "pj_count_fail",
                       "pj_finally", "pj_cache"}

\* the jobs worker k has processed, and those of them whose result was saved
ProcessedOn(k) ==
    {j \in JobIds : jobs[j].start_time /\ jobs[j].gpu_id = workers[k]}
SavedOn(k) == {j \in ProcessedOn(k) : jobs[j].result}

\* the counters of worker k account for the jobs it has processed, on top
\* of the c jobs it had completed before
CountersMatch(k, c) ==
    /\ stats[k].jobs_completed = c + Cardinality(SavedOn(k))
    /\ stats[k].jobs_failed = Cardinality(ProcessedOn(k) \ SavedOn(k))

\* C13: a process_job call that returns has stamped end_time and left the
\* job 'completed' or 'failed'; every step adds at most one to one counter
\* and none decreases; and whenever no job is running on a worker,
\* jobs_completed counts the jobs it completed and jobs_failed those it
\* failed, also when its jobs ran on different threads.
C13_CountersExact ==
    /\ [](\A r \in Runners : rpc[r] = "pj_returned" =>
              /\ jobs[rjob[r]].end_time
              /\ jobs[rjob[r]].status \in Terminal
              /\ jobs[rjob[r]].status = "completed" <=> jobs[rjob[r]].result)
    /\ [](\E c \in PriorJobs : \A k \in 1..Len(workers) :
              ~RunningOn(k) => CountersMatch(k, c))
    /\ [][\A k \in 1..Len(workers) :
              LET dc == stats'[k].jobs_completed - stats[k].jobs_completed
                  df == stats'[k].jobs_failed - stats[k].jobs_failed
              IN dc \in {0, 1} /\ df \in {0, 1} /\ dc + df <= 1
        ]_vars

\* two threads have returned from process_job on the same worker, one job
\* completed and one failed, and no job is running on that worker
C13_Witness ==
    \E r1, r2 \in ExecThreads :
        /\ r1 # r2
        /\ rworker[r1] = rworker[r2]
        /\ rpc[r1] = "pj_returned" /\ rpc[r2] = "pj_returned"
        /\ jobs[rjob[r1]].status = "completed"
        /\ jobs[rjob[r2]].status = "failed"
        /\ ~RunningOn(rworker[r1])

(***************************************************************************)
(* Claims about optimized_transcribe_gpu.py.                               *)
(***************************************************************************)
\* the files that have been probed, and the status the probe returned
Probed == {f \in FileIds : probe_run[f] # NoValue}
StatusOf(f) == CheckAudioLevel(probe_run[f][1])[1]

\* C14: for an input probed 'silent' no audio is extracted and the model
\* is not invoked, and the transcript written for it is a stub with
\* is_silent = true and no segments; an input probed 'has_audio' or
\* 'unknown' is passed on to transcription.
C14_SilentShortCircuit ==
    \A f \in Probed :
        IF StatusOf(f) = "silent"
        THEN /\ f \notin extract_calls
             /\ f \notin transcribe_calls
             /\ ot_pc \in {"batch", "transcribe", "returned"} =>
                   /\ transcripts[f] # NoValue
                   /\ transcripts[f][1].is_silent
                   /\ transcripts[f][1].segments = 0
        ELSE ot_pc \in {"transcribe", "returned"} => f \in extract_calls

\* a run has ended in which a silent file got its stub and a file with
\* audio and a file of unknown status were transcribed
C14_Witness ==
    /\ ot_pc = "returned"
    /\ \E f, g, h \in Probed :
          /\ StatusOf(f) = "silent" /\ transcripts[f] # NoValue
          /\ StatusOf(g) = "has_audio" /\ g \in transcribe_calls
          /\ StatusOf(h) = "unknown" /\ h \in transcribe_calls

\* C15: in one process_files run silent inputs are counted neither as
\* completed nor as failed and every other input is counted exactly once:
\* completed + failed equals the number of non-silent inputs, also when
\* the audio extraction of an input fails or times out.
C15_EveryInputCounted ==
    (ot_pc = "returned" /\ report.written) =>
        /\ report.transcribed + report.failed =
              Cardinality({f \in Probed : StatusOf(f) # "silent"})
        /\ report.silent_skipped =
              Cardinality({f \in Probed : StatusOf(f) = "silent"})

\* C16: check_audio_level returns 'silent' only when a max volume was
\* parsed and it is below -60 dB; a timeout, a probe error or unparsable
\* output gives 'unknown'; and every probe returns one status.
C16_ProbeStatus ==
    \A f \in Probed :
        LET run == probe_run[f][1]
            lists == <<FilesOf(silent_files), FilesOf(audio_files),
                       FilesOf(unknown_files)>>
        IN /\ Cardinality({k \in 1..3 : f \in lists[k]}) = 1
           /\ f \in lists[1] =>
                 /\ run.kind = "output"
                 /\ run.max_vol # NoValue
                 /\ run.max_vol[1] < (-60)
           /\ (run.kind \in {"timeout", "error"} \/ run.max_vol = NoValue
                  \/ run.mean_vol = NoValue) => f \in lists[3]

\* three files have been probed: one is silent, one has its maximum at the
\* threshold and counts as audible, and the probe of one timed out
C16_Witness ==
    \E f, g, h \in Probed :
        /\ f \in FilesOf(silent_files)
        /\ probe_run[g][1].max_vol = Some(-60) /\ g \in FilesOf(audio_files)
        /\ probe_run[h][1].kind = "timeout" /\ h \in FilesOf(unknown_files)

(***************************************************************************)
(* Claims about batch_orchestrator.py: generate_hashes.                    *)
(***************************************************************************)
\* the sidecars on disk
Sidecars == {n \in SidecarNames : hash_files[n] # NoValue}

\* C19: every .sha256 sidecar holds the SHA-256 digest of the content of
\* the file named on its line.
C19_HashFidelity ==
    \A n \in Sidecars :
        LET line == hash_files[n][1]
        IN /\ out_content[line.file] # NoFile
           /\ line.sha256 = Sha256(out_content[line.file])

\* generate_hashes has returned after hashing two transcripts of different
\* content
C19_Witness ==
    /\ hpc = "returned"
    /\ Sidecars # {}
    /\ \E a, b \in 1..Len(hashes_generated) :
          hashes_generated[a].sha256 # hashes_generated[b].sha256

\* C20: generate_hashes leaves one sidecar per matching file: after the
\* transcript.json files of k inputs are hashed, k sidecars exist, each
\* naming a different transcript, and their number is hashes_generated.
C20_OneSidecarPerFile ==
    hpc = "returned" =>
        /\ Cardinality(Sidecars) = Len(hashes_generated)
        /\ Cardinality(Sidecars) =
              Cardinality({d \in HashDirs : out_content[d] # NoFile})
        /\ \A d \in HashDirs : out_content[d] # NoFile =>
              \E n \in Sidecars : hash_files[n][1].file = d

(***************************************************************************)
(* Claims about batch_orchestrator.py: process_batch and the artifacts of  *)
(* its jobs.                                                               *)
(***************************************************************************)
\* C17: with skip_existing enabled, no ASR is run for an input whose
\* transcript.json exists when the run starts, and that transcript.json is
\* left unchanged.
C17_SkipExisting ==
    skip_existing =>
        \A i \in existing :
            /\ i \notin asr_runs
            /\ artifacts[i].json = "old"

\* the artifacts this run has left on disk for input i
Left(i) == {f \in {"json", "srt", "vtt", "csv"} :
               artifacts[i][f] \in {"partial", "new"}}

\* C18: the artifacts of a job are all-or-nothing: a 'completed' job has
\* transcript.json and every requested SRT/VTT/CSV file written, a 'failed'
\* job has left no artifact on disk, and no job that has ended has left a
\* partially written transcript.json.
C18_ArtifactsAllOrNothing ==
    \A j \in JobIds :
        /\ jobs[j].status = "completed" =>
              \A f \in {"json"} \cup Exported : artifacts[j][f] = "new"
        /\ jobs[j].status = "failed" => Left(j) = {}
        /\ jobs[j].status \in Terminal => artifacts[j].json # "partial"

(***************************************************************************)
(* Claims about batch_orchestrator.py: execute.                            *)
(***************************************************************************)
\* the files of a list
ListedIn(list) == {list[k] : k \in 1..Len(list)}

\* the files found whose first component relative to the working
\* directory starts with c
FirstComponent(c) == {f \in ListedIn(all_files) : StartsWith(f[1], c)}

\* the tree F001/a.mp4, F002/b.mp4, R001/c.mp4
ExampleTree ==
    {<<Part("F", "001"), Part("a", ".mp4")>>,
     <<Part("F", "002"), Part("b", ".mp4")>>,
     <<Part("R", "001"), Part("c", ".mp4")>>}

\* C21: after scan_files the role of every file found is decided by the
\* first component of its path relative to the working directory: the
\* front files are those under a component beginning with 'F', the rear
\* files skipped those under a component beginning with 'R'; for the tree
\* F001/a.mp4, F002/b.mp4, R001/c.mp4 and the pattern F*/*.mp4 the front
\* files are the two under F001 and F002 and R001/c.mp4 is the rear file
\* skipped.
C21_CameraRole ==
    scan_pc = "returned" =>
        /\ ListedIn(scan_front) = FirstComponent("F")
        /\ ListedIn(scan_rear) = FirstComponent("R")
        /\ (tree = ExampleTree /\ pattern = "F*/*.mp4") =>
              /\ Len(scan_front) = 2
              /\ scan_rear = <<<<Part("R", "001"), Part("c", ".mp4")>>>>

\* what _generate_completion_report is given: every check passed
AllChecksPassed ==
    /\ Len(verification_results) = Len(Checks)
    /\ \A k \in 1..Len(Checks) :
          verification_results[k] /\ CheckPass(Checks[k])

\* C22: in the completion report objective_achieved is true if and only if
\* every verifier check passed and the manifest's jobs_failed is 0.
C22_ObjectiveAchieved ==
    completion.written =>
        (completion.objective_achieved <=>
            (AllChecksPassed /\ manifest.jobs_failed = 0))

\* a report with every check passed and a failed job, and one with the
\* objective achieved, have been written
C22_Witness ==
    /\ completion.written
    /\ AllChecksPassed
    /\ manifest.jobs_failed > 0
    /\ ~completion.objective_achieved

\* C23: after a scan_files operation that produced no front file, the
\* initialize_pipeline and process_batch operations are not executed.
C23_FailFastOnNoInput ==
    (results["scan_files"] # "none" /\ scan_front = <<>>) =>
        /\ results["initialize_pipeline"] = "none"
        /\ results["process_batch"] = "none"

(***************************************************************************)
(* Claims about worker.py: a worker that stops while it holds a claim.     *)
(***************************************************************************)
\* a worker has stopped between its successful try_claim_video(v) and its
\* release_video(v)
StoppedOn(v) ==
    \E w \in WorkerIds :
        wpc[w] = "stopped" /\ Basename(video_path[w]) = v

\* C24: once a worker has stopped after a successful try_claim_video(v) and
\* before release_video(v), the lock for v exists in every later state, no
\* try_claim_video(v) returns True and v is not processed.
C24_LockLeaks ==
    /\ [](\A v \in VideoNames : StoppedOn(v) => lockfile[v] # Absent)
    /\ [][\A v \in VideoNames : StoppedOn(v) =>
              /\ claims'[v] = claims[v]
              /\ processedBy'[v] = processedBy[v]]_vars

\* another worker's try_claim_video(v) has returned False after the holder
\* of v stopped
C24_Witness ==
    \E v \in VideoNames, w \in WorkerIds :
        /\ StoppedOn(v)
        /\ wpc[w] # "stopped"
        /\ claimRet[w].called
        /\ claimRet[w].name = v
        /\ ~claimRet[w].ret

(***************************************************************************)
(* Claims about exporters.py and the SRT export of gpu_pipeline.py.        *)
(***************************************************************************)
\* C25: the segment-merging policy is idempotent: merging the result of
\* merging a segment list gives the same list as merging it once.
C25_MergeIdempotent ==
    xpc \in {"remerged", "srt", "exported"} => remerged = merged

\* a list in which segments were merged into more than one cue has been
\* merged twice
C25_Witness ==
    /\ xpc = "remerged"
    /\ Len(merged) >= 2
    /\ Len(merged) < Len(x_segments)

\* the positions at which a new run begins: the first segment, and every
\* segment that has another speaker label than the preceding one or starts
\* more than the threshold after its end
RunStarts(segs) ==
    {i \in 1..Len(segs) :
        \/ i = 1
        \/ segs[i].speaker # segs[i - 1].speaker
        \/ segs[i].start - segs[i - 1].end > merge_threshold}

RECURSIVE JoinedText(_, _, _)
\* the texts of the segments b..e joined in order
JoinedText(segs, b, e) ==
    IF b > e THEN <<>> ELSE segs[b].text \o JoinedText(segs, b + 1, e)

\* one cue per maximal run, written as "[<label>] <text>"
ExpectedCues(segs) ==
    LET starts == Sorted(RunStarts(segs))
    IN [k \in 1..Len(starts) |->
           LET b == starts[k]
               e == IF k < Len(starts) THEN starts[k + 1] - 1 ELSE Len(segs)
           IN [index |-> k,
               start_time |-> FormatTimestamp(segs[b].start, "srt"),
               end_time |-> FormatTimestamp(segs[e].end, "srt"),
               label |-> <<"[", segs[b].speaker, "] ">>,
               text |-> JoinedText(segs, b, e)]]

\* C26: the SRT output has one cue per maximal run of consecutive segments
\* with the same speaker label that start at most merge_threshold after the
\* end of the preceding segment: the cue runs from the first start to the
\* last end and its text is "[<label>] " and the texts joined in order (for
\* the example two cues, 00:00:00,000 --> 00:00:03,000 '[SPK_00] hi there'
\* and 00:00:03,500 --> 00:00:04,000 '[SPK_01] yo').
C26_MergedCues ==
    xpc = "exported" =>
        /\ srt_cues = ExpectedCues(x_segments)
        /\ gpu_srt_cues = ExpectedCues(x_segments)

(***************************************************************************)
(* Claims about the order of the segments of a transcript.                 *)
(***************************************************************************)
\* for every i < j, list[i].start <= list[j].start
StartOrdered(list) ==
    \A i, j \in 1..Len(list) : i < j => list[i].start <= list[j].start

\* C27: in every emitted transcript the segments are in non-decreasing
\* start order: the GPU worker keeps the segments in the order it collected
\* them, and the merged list of a chunked audio is ordered by start after
\* the chunk offsets have been added.
C27_SegmentsOrdered ==
    /\ mpc = "emitted_gpu" =>
          /\ StartOrdered(segment_list)
          /\ Len(segment_list) = Len(asr_segments)
          /\ \A i \in 1..Len(segment_list) :
                segment_list[i].start = asr_segments[i]
    /\ mpc = "emitted_chunks" =>
          /\ StartOrdered(all_segments)
          /\ Len(all_segments) = Len(Extended(chunk_results))
          /\ \A k \in 1..Len(chunk_results) :
                \A i \in 1..Len(chunk_results[k].transcription) :
                   chunk_results[k].transcription[i].start =
                      chunks[k].asr[i] + chunks[k].start

\* the chunks of a long audio overlap: a segment of a later chunk starts
\* before a segment of an earlier chunk, and the merged list is emitted
C27_Witness ==
    /\ mpc = "emitted_chunks"
    /\ ~StartOrdered(Extended(chunk_results))
    /\ Len(all_segments) >= 2

(***************************************************************************)
(* Claims about audio_extractor.py: split_long_audio.                      *)
(***************************************************************************)
\* C28: for a duration longer than max_duration and 0 <= overlap <
\* max_duration the chunks returned cover [0, duration]: the first starts at
\* 0, each starts exactly overlap before the end of the previous one, none
\* is longer than max_duration and the last ends at the duration.
C28_ChunksCover ==
    (kpc = "returned" /\ duration > max_duration) =>
        /\ split_chunks # <<>>
        /\ split_chunks[1].start_time = 0
        /\ \A i \in 2..Len(split_chunks) :
              split_chunks[i].start_time =
                 split_chunks[i - 1].end_time - overlap
        /\ \A i \in 1..Len(split_chunks) :
              split_chunks[i].end_time - split_chunks[i].start_time
                 <= max_duration
        /\ split_chunks[Len(split_chunks)].end_time = duration

(***************************************************************************)
(* Claims about hardware_optimizer.py: tier, model and batch size.         *)
(***************************************************************************)
\* the tier of a score
Bracket(score) ==
    IF score >= 70 THEN "ultra"
    ELSE IF score >= 45 THEN "high"
    ELSE IF score >= 25 THEN "medium"
    ELSE "low"

\* the points of a value v on a scale of three steps
Points(v, a, b, c, pa, pb, pc) ==
    IF v >= a THEN pa ELSE IF v >= b THEN pb ELSE IF v >= c THEN pc ELSE 0

\* the score of the hardware profile detected
ProfileScore ==
    LET n == gpu_info.gpu_count
        vram == gpu_info.gpu_vram_total_gb
        most == IF vram = <<>> THEN 0 ELSE MaxOf(vram)
    IN (IF n >= 1 THEN 30 ELSE 0)
       + (IF n >= 2 THEN 20 ELSE 0)
       + (IF n >= 1 THEN Points(most, 24, 12, 12, 20, 10, 10) ELSE 0)
       + Points(machine.cpu_cores, 16, 8, 4, 15, 10, 5)
       + Points(machine.memory.ram_total_gb, 64, 32, 16, 15, 10, 5)

\* two GPUs of 12 GB, 16 cores, 64 GB of memory, the GPUs detected
TwoTwelves ==
    /\ Len(machine.gpus) = 2
    /\ \A i \in 1..2 : machine.gpus[i].vram_total_gb = 12
    /\ machine.cpu_cores = 16
    /\ machine.memory.ram_total_gb = 64
    /\ gpu_info.gpu_available

\* C29: the tier is the bracket (>= 70 ultra, >= 45 high, >= 25 medium,
\* else low) of the score 30 for any GPU + 20 for two or more + 20/10 for
\* a maximum VRAM >= 24/12 GB + 15/10/5 for cores >= 16/8/4 + 15/10/5 for
\* RAM >= 64/32/16 GB; in tier ultra beam size and best-of are 10 and the
\* batch size is twice the table value; two 12 GB GPUs, 16 cores and 64 GB
\* give ultra, large-v3, 10 and 10, and 2 files in parallel.
C29_TierAndUltra ==
    dpc = "done" =>
        LET p == optimization_profile[1]
        IN /\ p.hardware_tier = Bracket(ProfileScore)
           /\ p.hardware_tier = "ultra" =>
                 /\ p.transcription.beam_size = 10
                 /\ p.transcription.best_of = 10
                 /\ p.transcription.batch_size =
                       2 * recommendations.recommended_batch_size
           /\ TwoTwelves =>
                 /\ p.hardware_tier = "ultra"
                 /\ p.transcription.model = "large-v3"
                 /\ p.transcription.beam_size = 10
                 /\ p.transcription.best_of = 10
                 /\ p.parallel_processing.max_concurrent_files = 2

\* the profile of two 12 GB GPUs, 16 cores and 64 GB has been derived
C29_Witness ==
    /\ dpc = "done"
    /\ TwoTwelves
    /\ optimization_profile[1].hardware_tier = "ultra"
    /\ optimization_profile[1].transcription.batch_size = 32

\* the free video memory of the GPUs of the machine
FreeVram == [i \in 1..Len(machine.gpus) |-> machine.gpus[i].vram_free_gb]

\* C30: on the GPU path the model and the batch size are those of the
\* table (>= 10 GB large-v3/16, >= 6 large-v2/8, >= 4 medium/4, >= 2
\* small/2, else base/1) for the minimum VRAM over all the GPUs of the
\* machine, whether they were detected by the CUDA query or by nvidia-smi.
C30_ModelFromMinVram ==
    (dpc = "done" /\ gpu_info.gpu_available) =>
        /\ recommendations.recommended_device = "cuda"
        /\ <<recommendations.recommended_model,
              recommendations.recommended_batch_size>> =
                 GpuModel(MinOf(FreeVram))

(***************************************************************************)
(* Claims about the speaker labels: gpu_pipeline.py, transcriber.py.       *)
(***************************************************************************)
\* the speakers the rule allows for a segment: those of the turns of the
\* largest overlap, and among these of the earliest start; none if no turn
\* overlaps the segment
Winners(seg) ==
    LET I == 1..Len(turns)
        meets == {i \in I : OverlapDuration(turns[i], seg) > 0}
        most == {i \in meets :
                    \A j \in meets : OverlapDuration(turns[j], seg)
                                        <= OverlapDuration(turns[i], seg)}
        first == {i \in most : \A j \in most : turns[i].start <= turns[j].start}
    IN {turns[i].speaker : i \in first}

\* every segment of the list has the label of the rule, unknown being the
\* label of a segment no turn overlaps
LabelledByRule(segs, unknown) ==
    \A i \in 1..Len(segs) :
        IF Winners(segs[i]) = {} THEN segs[i].speaker = unknown
        ELSE segs[i].speaker \in Winners(segs[i])

\* C31: a segment gets the speaker of the turn with the largest time
\* overlap with it, the turn of the earliest start when several tie, and
\* the label Unknown when no turn overlaps it, in _add_diarization and in
\* align_with_diarization.
C31_SpeakerByOverlap ==
    /\ d_info = "enabled" => LabelledByRule(d_segments, "Unknown")
    /\ zpc = "aligned" => LabelledByRule(aligned_segments, "Unknown")

\* C31, amended: as above, the label of a segment no turn overlaps being
\* Unknown in _add_diarization and UNKNOWN in align_with_diarization.
C31_SpeakerByOverlapEither ==
    /\ d_info = "enabled" => LabelledByRule(d_segments, "Unknown")
    /\ zpc = "aligned" => LabelledByRule(aligned_segments, "UNKNOWN")

\* two turns given latest first tie on the segment (1, 3)
TieTurns ==
    /\ turns = <<[start |-> 2, end |-> 4, speaker |-> "SPEAKER_01"],
                 [start |-> 0, end |-> 2, speaker |-> "SPEAKER_00"]>>
    /\ d_segments[1].start = 1 /\ d_segments[1].end = 3

\* align_with_diarization gave the segment the speaker of the earlier turn
C31_Witness ==
    /\ TieTurns
    /\ zpc = "aligned"
    /\ aligned_segments[1].speaker = "SPEAKER_00"

\* C32: when the diarization backend raises during a job, the job ends
\* 'completed' (jobs_completed incremented, jobs_failed not), the result
\* records the diarization error and every segment of the result carries
\* the speaker label Unknown.
C32_DiarizationDowngrade ==
    (zpc = "returned" /\ d_info = "error" /\ d_job.jobs_failed = 0) =>
        /\ d_job.status = "completed"
        /\ d_job.jobs_completed = 1
        /\ \A i \in 1..Len(d_segments) : d_segments[i].speaker = "Unknown"

(***************************************************************************)
(* Claims about gpu_pipeline.py: the queue of process_stream, the          *)
(* statistics, the workers, the output paths.                              *)
(***************************************************************************)
\* C33: when process_stream returns the shared job queue is drained: every
\* job and every end-of-stream sentinel put on it has been consumed, so
\* nothing is left over for a later call.
C33_QueueDrained == cpc = "returned" => job_queue = <<>>

\* C34: a per-worker entry returned by get_statistics is a consistent
\* snapshot: its jobs_completed, jobs_failed and current_job all held
\* together in one state of the worker, also when the worker processes
\* jobs in another thread meanwhile.
C34_ConsistentSnapshot ==
    gs_pc = "returned" => <<gs_entry[1], gs_entry[2], gs_entry[3]>> \in held

\* the workers bound to GPU g
BoundTo(g) == {k \in 1..Len(workers) : workers[k] = g}

\* C35: after any sequence of initialize() and process_batch or
\* process_stream calls, a second initialize() and a retry after a failed
\* initialize() included, the pipeline holds exactly one worker for each
\* GPU id 0..gpu_count-1.
C35_OneWorkerPerGpu ==
    (cpc = "returned" /\ raised = "none") =>
        /\ Len(workers) = gpu_count
        /\ \A g \in 0..(gpu_count - 1) : Cardinality(BoundTo(g)) = 1

(***************************************************************************)
(* Claims about exporters.py: the exporters and the transcript.            *)
(***************************************************************************)
\* C36: an export call leaves the segments of the transcript it is given
\* (start, end, text and words lists) unchanged, so exporting the same
\* transcript to several formats in any order, or twice to one format,
\* produces the same files: a format written again gets the same content.
C36_ExportersPure ==
    [][/\ p_segments' = p_segments
       /\ \A f \in ExportFormats :
             p_files[f] # NoExport => p_files'[f] = p_files[f]]_vars

\* C37: within one process_batch or process_stream call distinct input
\* files get distinct output paths, so no two jobs of the call write the
\* same transcript.json.
C37_DistinctOutputPaths ==
    \A i, j \in DOMAIN o_jobs :
        o_jobs[i].input_path # o_jobs[j].input_path =>
            JsonPath(o_jobs[i]) # JsonPath(o_jobs[j])

Recorded(v) ==
    /\ claims[v] > 0
    /\ lockfile[v] = Absent
    /\ processed_list[v] > 0

\* C39: if no worker crashes and every process_video call returns, then
\* under fair scheduling every video present in the staging directory is
\* eventually claimed by a worker, released, and recorded in the processed
\* list.
C39_EveryVideoRecorded ==
    \A v \in VideoNames : (v \in staging) ~> Recorded(v)

\* every video has been claimed, released, recorded and deleted from the
\* staging directory, while a worker still scans an older listing
C39_Witness ==
    /\ staging = {}
    /\ \A v \in VideoNames : Recorded(v)
    /\ \E w \in WorkerIds : wpc[w] = "scan" /\ vidx[w] > 1

(***************************************************************************)
(* Claims about audio_extractor.py: termination of split_long_audio.       *)
(***************************************************************************)
\* C40: split_long_audio terminates for every source duration, every
\* max_duration > 0 and every overlap >= 0, also overlap >= max_duration:
\* the chunk start strictly advances on every iteration of its loop.
C40_StartAdvances ==
    [][chunk_idx' # chunk_idx => start_time' > start_time]_vars

====
